---- MODULE Spec2Model ----
(***************************************************************************)
(* A3Dshell GUI (gui_app.py): boundary validation, the Streamlit script    *)
(* run with its session state, configuration save/load and the run flow.  *)
(*                                                                         *)
(* Coordinates are EPSG:2056 metres.  Every sample coordinate is a         *)
(* multiple of 1000 m, so the cross products below divide the differences  *)
(* by 1000 first (exact) to stay inside TLC's 32-bit integers.             *)
(***************************************************************************)
EXTENDS Integers, Sequences, FiniteSets, TLC

VARIABLES
    cache,          \* st.cache_data entry of get_swiss_boundary_polygon
    fetched,        \* the last real (uncached) execution of get_swiss_boundary_polygon
    chk,            \* the last validator call: its arguments and what it returned
    roi_validated,  \* st.session_state['roi_validated']
    config,         \* st.session_state.config
    roi,            \* the tab 2 widget values of the last script run and its roi_shapefile
    params,         \* the other widget values of the last script run and the POI lists
    files,          \* the files under config/: path and content
    run,            \* the run flow of the script run in progress (Start Run / Start Setup)
    proc,           \* process: the python -m src.cli started by this script run
    saved,          \* what the last Save Config serialized, and where to
    meteo,          \* the A3D_IMIS_AVAILABLE flag and the widgets of tabs 5 and 7 in the last script run
    peer            \* the run flow of another session of the same server

valVars == <<cache, fetched, chk>>

sessVars == <<roi_validated, config, roi, params>>

flowVars == <<files, run, proc, saved>>

vars == <<cache, fetched, chk, roi_validated, config, roi, params, files, run, proc, saved, meteo, peer>>

(***************************************************************************)
(* Plane geometry (what shapely computes for the predicates the code uses) *)
(***************************************************************************)
None == <<>>

Sign(n) == IF n > 0 THEN 1 ELSE IF n < 0 THEN -1 ELSE 0

Min2(a, b) == IF a <= b THEN a ELSE b

Max2(a, b) == IF a >= b THEN a ELSE b

\* orientation of c relative to the directed line a -> b (> 0: left of it)
Cross(a, b, c) ==
    ((b[1] - a[1]) \div 1000) * ((c[2] - a[2]) \div 1000)
      - ((b[2] - a[2]) \div 1000) * ((c[1] - a[1]) \div 1000)

OnSegment(p, a, b) ==
    /\ Cross(a, b, p) = 0
    /\ Min2(a[1], b[1]) <= p[1] /\ p[1] <= Max2(a[1], b[1])
    /\ Min2(a[2], b[2]) <= p[2] /\ p[2] <= Max2(a[2], b[2])

\* the edges of a closed ring (first vertex repeated at the end)
Edges(ring) == 1..(Len(ring) - 1)

OnBoundary(ring, p) == \E i \in Edges(ring) : OnSegment(p, ring[i], ring[i + 1])

\* edge i crosses the horizontal ray from p towards +x
RayCrosses(ring, i, p) ==
    LET a == ring[i]
        b == ring[i + 1]
    IN  \/ a[2] <= p[2] /\ p[2] < b[2] /\ Cross(a, b, p) > 0
        \/ b[2] <= p[2] /\ p[2] < a[2] /\ Cross(a, b, p) < 0

OddCrossings(ring, p) ==
    Cardinality({i \in Edges(ring) : RayCrosses(ring, i, p)}) % 2 = 1

\* p in the interior of the polygon
StrictlyInside(ring, p) == ~OnBoundary(ring, p) /\ OddCrossings(ring, p)

\* p in the polygon, boundary included
InClosed(ring, p) == OnBoundary(ring, p) \/ OddCrossings(ring, p)

ProperCross(a, b, c, d) ==
    /\ Sign(Cross(a, b, c)) * Sign(Cross(a, b, d)) < 0
    /\ Sign(Cross(c, d, a)) * Sign(Cross(c, d, b)) < 0

SegmentsMeet(a, b, c, d) ==
    \/ ProperCross(a, b, c, d)
    \/ OnSegment(c, a, b) \/ OnSegment(d, a, b)
    \/ OnSegment(a, c, d) \/ OnSegment(b, c, d)

\* shapely: polygon.contains(Point)
ContainsPoint(ring, p) == StrictlyInside(ring, p)

\* shapely: polygon.contains(other polygon): no point of g outside ring
ContainsGeom(ring, g) ==
    /\ \A j \in Edges(g) : InClosed(ring, g[j])
    /\ \A i \in Edges(ring) : ~StrictlyInside(g, ring[i])
    /\ \A i \in Edges(ring) : \A j \in Edges(g) :
           ~ProperCross(ring[i], ring[i + 1], g[j], g[j + 1])

\* shapely: polygon.intersects(other polygon): they share a point
IntersectsGeom(ring, g) ==
    \/ \E j \in Edges(g) : InClosed(ring, g[j])
    \/ \E i \in Edges(ring) : InClosed(g, ring[i])
    \/ \E i \in Edges(ring) : \E j \in Edges(g) :
           SegmentsMeet(ring[i], ring[i + 1], g[j], g[j + 1])

\* shapely: box(minx, miny, maxx, maxy)
box(minx, miny, maxx, maxy) ==
    << <<maxx, miny>>, <<maxx, maxy>>, <<minx, maxy>>, <<minx, miny>>, <<maxx, miny>> >>

SetMin(S) == CHOOSE m \in S : \A n \in S : m <= n

SetMax(S) == CHOOSE m \in S : \A n \in S : m >= n

\* shapely: geometry.bounds = (minx, miny, maxx, maxy)
bounds(g) ==
    << SetMin({g[j][1] : j \in 1..Len(g)}), SetMin({g[j][2] : j \in 1..Len(g)}),
       SetMax({g[j][1] : j \in 1..Len(g)}), SetMax({g[j][2] : j \in 1..Len(g)}) >>

(***************************************************************************)
(* get_swiss_boundary_polygon                                              *)
(***************************************************************************)
SWISS_MIN_E == 2485000

SWISS_MAX_E == 2834000

SWISS_MIN_N == 1075000

SWISS_MAX_N == 1296000

simplified_coords ==
    << <<2485000, 1075000>>, <<2485000, 1110000>>, <<2490000, 1145000>>,
       <<2495000, 1185000>>, <<2510000, 1230000>>, <<2525000, 1265000>>,
       <<2570000, 1295000>>, <<2630000, 1296000>>, <<2720000, 1295000>>,
       <<2795000, 1280000>>, <<2834000, 1255000>>, <<2830000, 1220000>>,
       <<2815000, 1185000>>, <<2785000, 1150000>>, <<2750000, 1110000>>,
       <<2715000, 1085000>>, <<2680000, 1080000>>, <<2630000, 1085000>>,
       <<2580000, 1095000>>, <<2530000, 1085000>>, <<2490000, 1078000>>,
       <<2485000, 1075000>> >>

\* a ring the remote service may answer with (any polygon other than the fallback)
RemoteRing ==
    << <<2500000, 1100000>>, <<2500000, 1250000>>, <<2800000, 1250000>>,
       <<2800000, 1100000>>, <<2500000, 1100000>> >>

\* What requests.get(url, timeout=5) can give: an exception (network error,
\* timeout), or a response with a status code and a body.  The body is JSON or
\* not (response.json() raises); a JSON body carries a list of results, and a
\* result its geometry rings (None: no 'geometry'/'rings' key, or no ring).
Responses ==
    { [raises |-> TRUE,  status_code |-> 0,   json |-> FALSE, results |-> <<>>],
      [raises |-> FALSE, status_code |-> 503, json |-> FALSE, results |-> <<>>],
      [raises |-> FALSE, status_code |-> 200, json |-> FALSE, results |-> <<>>],
      [raises |-> FALSE, status_code |-> 200, json |-> TRUE,  results |-> <<>>],
      [raises |-> FALSE, status_code |-> 200, json |-> TRUE,
       results |-> << [rings |-> None] >>],
      [raises |-> FALSE, status_code |-> 200, json |-> TRUE,
       results |-> << [rings |-> None], [rings |-> <<RemoteRing>>] >>],
      [raises |-> FALSE, status_code |-> 200, json |-> TRUE,
       results |-> << [rings |-> << << <<2500000, 1100000>> >> >>] >>] }

\* shapely: Polygon(coords) raises ValueError on fewer than three coordinates
PolygonRaises(coords) == Len(coords) < 3

\* shapely: Polygon(coords) closes the ring
Polygon(coords) ==
    IF coords[1] = coords[Len(coords)] THEN coords ELSE Append(coords, coords[1])

\* the results of a body that carry a ring (lines 101-106)
WithRings(response) ==
    {i \in 1..Len(response.results) : response.results[i].rings # None}

\* The function body, given what the HTTP request gives.  None is what the
\* except clause (lines 143-144) returns.
get_swiss_boundary_polygon(response) ==
    IF response.raises THEN None
    ELSE IF response.status_code = 200 /\ ~response.json THEN None
    ELSE IF response.status_code = 200 /\ WithRings(response) # {}
         THEN LET rings == response.results[SetMin(WithRings(response))].rings
              IN  IF PolygonRaises(rings[1]) THEN None ELSE Polygon(rings[1])
    ELSE Polygon(simplified_coords)

(***************************************************************************)
(* The validators                                                          *)
(***************************************************************************)
\* A Python value passed as a coordinate: a number, or a value that is none
\* (None, a string): comparing it with a number, or Point(x, y), raises.
Num(v) == [numeric |-> TRUE, v |-> v]

NotANumber == [numeric |-> FALSE, v |-> 0]

Numeric(val) == val.numeric

Msg(text, args) == [text |-> text, args |-> args]

Result(ok, msg, raised) == [ok |-> ok, msg |-> msg, raised |-> raised]

check_swiss_boundaries_bbox_nobox(x, y, roi_size) ==
    IF ~(SWISS_MIN_E <= x /\ x <= SWISS_MAX_E /\ SWISS_MIN_N <= y /\ y <= SWISS_MAX_N)
    THEN Result(FALSE, Msg("Point appears outside Swiss boundaries", <<x, y>>), FALSE)
    ELSE Result(TRUE, Msg("Within Swiss boundaries", <<>>), FALSE)

\* lines 166-185: the polygon is unavailable
check_swiss_boundaries_bbox(x, y, roi_size) ==
    IF ~(SWISS_MIN_E <= x /\ x <= SWISS_MAX_E /\ SWISS_MIN_N <= y /\ y <= SWISS_MAX_N)
    THEN Result(FALSE, Msg("Point appears outside Swiss boundaries", <<x, y>>), FALSE)
    ELSE IF roi_size # 0
            /\ LET half_size == roi_size \div 2
               IN  ~(/\ SWISS_MIN_E <= x - half_size /\ x + half_size <= SWISS_MAX_E
                     /\ SWISS_MIN_N <= y - half_size /\ y + half_size <= SWISS_MAX_N)
    THEN Result(FALSE, Msg("ROI extends outside Swiss boundaries. Reduce ROI size or move center point.", <<>>), FALSE)
    ELSE Result(TRUE, Msg("Within Swiss boundaries", <<>>), FALSE)

check_swiss_boundaries_polygon_nobox(x, y, roi_size, swiss_boundary) ==
    IF ~ContainsPoint(swiss_boundary, <<x, y>>)
    THEN Result(FALSE, Msg("Point is outside Switzerland", <<x, y>>), FALSE)
    ELSE Result(TRUE, Msg("Within Switzerland", <<>>), FALSE)

\* lines 187-203: the polygon is available
check_swiss_boundaries_polygon(x, y, roi_size, swiss_boundary) ==
    IF ~ContainsPoint(swiss_boundary, <<x, y>>)
    THEN Result(FALSE, Msg("Point is outside Switzerland", <<x, y>>), FALSE)
    ELSE IF roi_size # 0
            /\ LET half_size == roi_size \div 2
               IN  ~ContainsGeom(swiss_boundary,
                        box(x - half_size, y - half_size, x + half_size, y + half_size))
    THEN Result(FALSE, Msg("ROI extends outside Switzerland. Reduce ROI size or move center point.", <<>>), FALSE)
    ELSE Result(TRUE, Msg("Within Switzerland", <<>>), FALSE)

\* lines 205-207: "If anything fails, allow it (better than blocking)"
check_swiss_boundaries_except ==
    Result(TRUE, Msg("Could not validate boundaries", <<>>), TRUE)

check_polygon_except_open ==
    Result(TRUE, Msg("Could not validate boundaries. Please check your ROI.", <<"error">>), TRUE)

\* lines 265-270: "Fail safe: reject if validation fails"
check_polygon_except ==
    Result(FALSE, Msg("Could not validate boundaries. Please check your ROI.", <<"error">>), TRUE)

\* roi_size 0 stands for None as well (both are falsy at lines 176 and 195)
check_swiss_boundaries(x, y, roi_size, swiss_boundary) ==
    IF ~Numeric(x) \/ ~Numeric(y)
    THEN \* the comparison (line 173) or Point(x, y) (line 188) raises: lines 205-207
         check_swiss_boundaries_except
    ELSE IF swiss_boundary = None
    THEN check_swiss_boundaries_bbox(x.v, y.v, roi_size)
    ELSE check_swiss_boundaries_polygon(x.v, y.v, roi_size, swiss_boundary)

\* A drawn GeoJSON geometry: whether shapely's shape() accepts it, whether
\* to_crs('EPSG:2056') reprojects it, and the EPSG:2056 ring the reprojection gives.
Geometry(wellformed, projectable, lv95) ==
    [wellformed |-> wellformed, projectable |-> projectable, lv95 |-> lv95]

\* lines 236-251: the polygon is unavailable
check_polygon_bbox(geom_lv95) ==
    LET b == bounds(geom_lv95)
    IN  IF b[1] < SWISS_MIN_E \/ b[3] > SWISS_MAX_E
        THEN Result(FALSE, Msg("Drawn ROI extends outside Swiss boundaries (East-West). Please redraw within Switzerland.", <<>>), FALSE)
        ELSE IF b[2] < SWISS_MIN_N \/ b[4] > SWISS_MAX_N
        THEN Result(FALSE, Msg("Drawn ROI extends outside Swiss boundaries (North-South). Please redraw within Switzerland.", <<>>), FALSE)
        ELSE Result(TRUE, Msg("ROI within Swiss boundaries (bounding box check)", <<>>), FALSE)

check_polygon_polygon_samemsg(geom_lv95, swiss_boundary) ==
    IF ~ContainsGeom(swiss_boundary, geom_lv95)
    THEN Result(FALSE, Msg("Drawn ROI is completely outside Switzerland. Please redraw within Swiss borders.", <<>>), FALSE)
    ELSE Result(TRUE, Msg("ROI within Switzerland (boundary polygon check)", <<>>), FALSE)

\* lines 253-263: the polygon is available
check_polygon_polygon(geom_lv95, swiss_boundary) ==
    IF ~ContainsGeom(swiss_boundary, geom_lv95)
    THEN IF IntersectsGeom(swiss_boundary, geom_lv95)
         THEN Result(FALSE, Msg("Drawn ROI crosses Swiss border. Part of the ROI is outside Switzerland. Please redraw within Swiss borders.", <<>>), FALSE)
         ELSE Result(FALSE, Msg("Drawn ROI is completely outside Switzerland. Please redraw within Swiss borders.", <<>>), FALSE)
    ELSE Result(TRUE, Msg("ROI within Switzerland (boundary polygon check)", <<>>), FALSE)

check_polygon_in_swiss_boundaries(geojson_geometry, swiss_boundary) ==
    IF ~geojson_geometry.wellformed \/ ~geojson_geometry.projectable
    THEN \* shape() (line 226) or to_crs (line 230) raises: lines 265-270
         check_polygon_except
    ELSE IF swiss_boundary = None
    THEN check_polygon_bbox(geojson_geometry.lv95)
    ELSE check_polygon_polygon(geojson_geometry.lv95, swiss_boundary)

(***************************************************************************)
(* Sample inputs of the validators                                         *)
(***************************************************************************)
\* centres: well inside; inside near the west border; just outside the west
\* border; on the west border; far outside; inside the hard-coded extent but
\* outside the polygon (north-west corner); the default centre 645000/115000.
Centres ==
    { <<2600000, 1200000>>, <<2490000, 1100000>>, <<2480000, 1100000>>,
      <<2485000, 1100000>>, <<2400000, 1200000>>, <<2486000, 1290000>>,
      <<645000, 115000>> }

PointInputs ==
    { <<Num(c[1]), Num(c[2])>> : c \in Centres } \cup { <<NotANumber, NotANumber>> }

\* 0: no ROI size given
RoiSizes == {0, 2000, 20000}

Rect(minx, miny, maxx, maxy) ==
    << <<minx, miny>>, <<minx, maxy>>, <<maxx, maxy>>, <<maxx, miny>>, <<minx, miny>> >>

\* drawn geometries: a triangle inside; a rectangle across the west border; a
\* rectangle far outside; a rectangle inside the extent but outside the polygon;
\* a rectangle across the northern limit of the extent; two that raise.
Drawings ==
    { Geometry(TRUE, TRUE, << <<2600000, 1150000>>, <<2650000, 1200000>>,
                              <<2700000, 1150000>>, <<2600000, 1150000>> >>),
      Geometry(TRUE, TRUE, Rect(2470000, 1090000, 2500000, 1105000)),
      Geometry(TRUE, TRUE, Rect(2300000, 1100000, 2350000, 1150000)),
      Geometry(TRUE, TRUE, Rect(2486000, 1280000, 2490000, 1290000)),
      Geometry(TRUE, TRUE, Rect(2600000, 1200000, 2650000, 1300000)),
      Geometry(FALSE, TRUE, None),
      Geometry(TRUE, FALSE, None) }

NoGeometry == Geometry(FALSE, FALSE, None)

(***************************************************************************)
(* The cached boundary and the validator calls                             *)
(***************************************************************************)
NoFetch == [done |-> FALSE, response |-> CHOOSE r \in Responses : r.raises, result |-> None]

NoCheck ==
    [fn |-> "none", x |-> Num(0), y |-> Num(0), roi_size |-> 0, geom |-> NoGeometry,
     boundary |-> None, res |-> Result(FALSE, Msg("", <<>>), FALSE)]

\* @st.cache_data(ttl=3600): the body runs on a miss only
CachedBoundary(response) ==
    IF cache.filled THEN cache.value ELSE get_swiss_boundary_polygon(response)

CallBoundary(response) ==
    /\ cache' = [filled |-> TRUE, value |-> CachedBoundary(response)]
    /\ fetched' = IF cache.filled THEN fetched
                  ELSE [done |-> TRUE, response |-> response,
                        result |-> get_swiss_boundary_polygon(response)]

ValidatePoint ==
    \E p \in PointInputs, roi_size \in RoiSizes, response \in Responses :
        /\ CallBoundary(response)
        /\ chk' = [fn |-> "point", x |-> p[1], y |-> p[2], roi_size |-> roi_size,
                   geom |-> NoGeometry, boundary |-> CachedBoundary(response),
                   res |-> check_swiss_boundaries(p[1], p[2], roi_size,
                                                  CachedBoundary(response))]
        /\ UNCHANGED <<sessVars, flowVars, meteo, peer>>

ValidatePolygon ==
    \E g \in Drawings, response \in Responses :
        /\ CallBoundary(response)
        /\ chk' = [fn |-> "polygon", x |-> Num(0), y |-> Num(0), roi_size |-> 0,
                   geom |-> g, boundary |-> CachedBoundary(response),
                   res |-> check_polygon_in_swiss_boundaries(g, CachedBoundary(response))]
        /\ UNCHANGED <<sessVars, flowVars, meteo, peer>>

\* the cache entry's ttl runs out
CacheExpires ==
    /\ cache.filled
    /\ cache' = [filled |-> FALSE, value |-> None]
    /\ UNCHANGED <<fetched, chk, sessVars, flowVars>>
    /\ UNCHANGED <<meteo, peer>>


(***************************************************************************)
(* Python values, the session dict and the widgets                         *)
(***************************************************************************)
\* A Python value.  t is its type; n carries a number (floats in tenths, so
\* 0.5 is 5 and 2.0 is 20); a str is plain text s (form "text"), or the
\* text Python prints for a number or a datetime (form "int", "float",
\* "iso"), or texts joined by commas (form "joined", parts).
PyVal(t, form, n, s, parts) == [t |-> t, form |-> form, n |-> n, s |-> s, parts |-> parts]

PyInt(n) == PyVal("int", "", n, "", <<>>)

PyFloat(n10) == PyVal("float", "", n10, "", <<>>)

PyBool(b) == PyVal("bool", "", IF b THEN 1 ELSE 0, "", <<>>)

PyStr(s) == PyVal("str", "text", 0, s, <<>>)

PyNone == PyVal("NoneType", "", 0, "", <<>>)

\* the key is not in the dict / the option is not in the file
Missing == PyVal("missing", "", 0, "", <<>>)

\* the conversion raised ValueError
Raised == PyVal("raised", "", 0, "", <<>>)

\* what an f-string puts for the value: str(v)
str(v) ==
    CASE v.t = "int" -> PyVal("str", "int", v.n, "", <<>>)
      [] v.t = "float" -> PyVal("str", "float", v.n, "", <<>>)
      [] v.t = "bool" -> PyStr(IF v.n = 1 THEN "True" ELSE "False")
      [] v.t = "NoneType" -> PyStr("None")
      [] OTHER -> v

\* float(v); float("645000") and float("645000.0") both parse, "" does not
float(v) ==
    CASE v.t = "float" -> v
      [] v.t = "int" -> PyFloat(v.n * 10)
      [] v.t = "bool" -> PyFloat(v.n * 10)
      [] v.t = "str" /\ v.form = "int" -> PyFloat(v.n * 10)
      [] v.t = "str" /\ v.form = "float" -> PyFloat(v.n)
      [] OTHER -> Raised

\* int(v); int("10.0") raises ValueError
int(v) ==
    CASE v.t = "int" -> v
      [] v.t = "float" -> PyInt(v.n \div 10)
      [] v.t = "bool" -> PyInt(v.n)
      [] v.t = "str" /\ v.form = "int" -> PyInt(v.n)
      [] OTHER -> Raised

\* bool(v)
bool(v) ==
    CASE v.t \in {"int", "float", "bool"} -> v.n # 0
      [] v.t = "str" -> ~(v.form = "text" /\ v.s = "")
      [] OTHER -> FALSE

\* datetime.strftime('%Y-%m-%dT%H:%M:%S'); a datetime is a number of seconds
\* counted from 2023-10-01 00:00:00
strftime(dt) == PyVal("str", "iso", dt, "", <<>>)

\* datetime.fromisoformat(text.replace('T', ' '))
fromisoformat(v) == IF v.t = "str" /\ v.form = "iso" THEN PyInt(v.n) ELSE Raised

ConfigKeys ==
    {"simu_name", "start_date", "end_date", "poi_x", "poi_y", "poi_z", "use_shp",
     "roi_size", "buffer_size", "roi_shapefile", "coord_sys", "gsd", "gsd_ref",
     "lus_source", "lus_cst", "mask_dem_to_polygon", "mask_lus_to_polygon",
     "user_dem_path"}

\* st.session_state.config = {}
EmptyConfig == [k \in ConfigKeys |-> Missing]

\* dict.get(key, default)
Get(d, key, dflt) == IF d[key] = Missing THEN dflt ELSE d[key]

\* datetime(2023, 10, 1) and datetime(2023, 10, 31, 23, 59, 59), in seconds
default_start == 0

default_end == 2678399

\* centre and size entered in tab 2 (number_input gives numbers; min 100)
SessBoxes ==
    { <<2600000, 1200000, 2000>>, <<2490000, 1100000, 2000>> }

\* what st_folium returns as last_active_drawing (NoGeometry: nothing drawn)
SessDrawings ==
    { NoGeometry,
      Geometry(TRUE, TRUE, << <<2600000, 1150000>>, <<2650000, 1200000>>,
                              <<2700000, 1150000>>, <<2600000, 1150000>> >>),
      Geometry(TRUE, TRUE, Rect(2470000, 1090000, 2500000, 1105000)) }

SessResponses == {r \in Responses : r.raises \/ Len(r.results) = 2}

ManualOption == "[Type path manually]"

\* The tab 2 widget values of one script run.
\*   use_shapefile, shapefile_option: lines 503-514
\*   selected_shapefile: lines 541-545 ("" when find_shapefiles found nothing)
\*   path: the "Shapefile path:" text input, lines 554-566
\*   drawing: map_output['last_active_drawing'], line 634
\*   x, y, roi_size: lines 819-850
\*   mask_lus, mask_dem: the two checkboxes, lines 592-611 / 702-721
Widgets(use_shapefile, shapefile_option, selected_shapefile, path, drawing, x, y, roi_size, mask_lus, mask_dem) ==
    [use_shapefile |-> use_shapefile, shapefile_option |-> shapefile_option,
     selected_shapefile |-> selected_shapefile, path |-> path, drawing |-> drawing,
     x |-> x, y |-> y, roi_size |-> roi_size, mask_lus |-> mask_lus,
     mask_dem |-> mask_dem]

\* bounding boxes, existing shapefiles (selected, no path typed, path typed
\* where none was found) and drawings
WidgetInputs ==
    { Widgets(FALSE, "none", "", "", NoGeometry, b[1], b[2], b[3], TRUE, TRUE) :
          b \in SessBoxes }
    \cup { Widgets(TRUE, "existing", sel[1], sel[2], NoGeometry, 0, 0, 0, TRUE, TRUE) :
              sel \in { <<"config/shapefiles/a.shp", "">>, <<ManualOption, "">>,
                        <<"", "shapefiles/b.shp">> } }
    \cup { Widgets(TRUE, "draw", "", "", d, 0, 0, 0, TRUE, TRUE) : d \in SessDrawings }

\* a point of interest of st.session_state.poi_list_ch / poi_list
Poi(name, x, y, z) == [name |-> name, x |-> x, y |-> y, z |-> z]

\* The other widget values of one script run, and the two POI lists.
\*   selected_config: the sidebar select box, lines 365-368
\*   simu_name, coord_sys: lines 449-461; start_dt, end_dt: lines 1315-1316
\*   z: lines 835-840 / 868 (metres); buffer_size: lines 1228-1235
\*   gsd_ref, gsd: lines 576-590 / 686-700 / 875-890 (tenths of a metre)
\*   lus_source, lus_constant: lines 1142-1161
\*   simu_name_other: line 1718; selected_dem: line 1759 ("" for no selection)
\*   target_epsg: line 1738; gsd_other: line 1784; lus_constant_other: line 1807
Params(selected_config, simu_name, coord_sys, start_dt, end_dt, z, buffer_size, gsd, gsd_ref, lus_source, lus_constant, poi_list_ch, simu_name_other, selected_dem, target_epsg, gsd_other, lus_constant_other, poi_list) ==
    [selected_config |-> selected_config, simu_name |-> simu_name,
     coord_sys |-> coord_sys, start_dt |-> start_dt, end_dt |-> end_dt, z |-> z,
     buffer_size |-> buffer_size, gsd |-> gsd, gsd_ref |-> gsd_ref,
     lus_source |-> lus_source, lus_constant |-> lus_constant,
     poi_list_ch |-> poi_list_ch, simu_name_other |-> simu_name_other,
     selected_dem |-> selected_dem, target_epsg |-> target_epsg,
     gsd_other |-> gsd_other, lus_constant_other |-> lus_constant_other,
     poi_list |-> poi_list]

CreateNew == "Create New"

\* the widget defaults of a session that loaded nothing
DefaultParams ==
    Params(CreateNew, "", "CH1903+", default_start, default_end, 1500, 10000,
           100, 20, "tlm", 11500, <<>>, "", "", 32632, 250, 11500, <<>>)

\* " " in simu_name_other (line 1725), for the names of the model
HasSpace(name) == name \in {"my sim"}

\* the values the user enters in a session of the run flow: the names of
\* the two modes, the DEM, and the period (in the last one the end date
\* picked is the day before the start date)
SessParams ==
    { [DefaultParams EXCEPT !.simu_name = n[1], !.simu_name_other = n[2],
                            !.selected_dem = n[3], !.start_dt = n[4],
                            !.end_dt = n[5]] :
          n \in { <<"sim", "my sim", "dem.tif", default_start, default_end>>,
                  <<"", "", "dem.tif", default_start, default_end>>,
                  <<"my sim", "sim", "", 172800, 86400>> } }

DrawnShapefile == "config/shapefiles/roi_drawn.shp"

(***************************************************************************)
(* Tab 2: the region of interest                                           *)
(***************************************************************************)
\* the validator call tab 2 makes (lines 642, 853), if it makes one
Tab2Calls(w) ==
    ~w.use_shapefile \/ (w.shapefile_option = "draw" /\ w.drawing # NoGeometry)

Tab2Check(w, swiss_boundary) ==
    IF ~w.use_shapefile
    THEN [fn |-> "point", x |-> Num(w.x), y |-> Num(w.y), roi_size |-> w.roi_size,
          geom |-> NoGeometry, boundary |-> swiss_boundary,
          res |-> check_swiss_boundaries(Num(w.x), Num(w.y), w.roi_size, swiss_boundary)]
    ELSE IF Tab2Calls(w)
    THEN [fn |-> "polygon", x |-> Num(0), y |-> Num(0), roi_size |-> 0,
          geom |-> w.drawing, boundary |-> swiss_boundary,
          res |-> check_polygon_in_swiss_boundaries(w.drawing, swiss_boundary)]
    ELSE chk

MaskFlagsUnguarded(cfg, mask_lus, mask_dem) ==
    [cfg EXCEPT !["mask_lus_to_polygon"] = PyBool(mask_lus),
                !["mask_dem_to_polygon"] = PyBool(mask_dem)]

\* lines 600 and 613 (and 710, 723): the flags of the shapefile branches
MaskFlags(cfg, mask_lus, mask_dem) ==
    [cfg EXCEPT !["mask_lus_to_polygon"] = PyBool(mask_lus),
                !["mask_dem_to_polygon"] = PyBool(IF mask_lus THEN mask_dem ELSE FALSE)]

\* Tab 2 (lines 496-890) on the dict cfg: st.session_state['roi_validated'],
\* the dict and the local roi_shapefile it leaves.  save is the "Save ROI"
\* button of the draw branch: "none" (not clicked), "saved" (save_drawn_roi
\* succeeded), "failed" (save_drawn_roi failed).
Tab2(cfg, w, save, swiss_boundary) ==
    LET is_valid == Tab2Check(w, swiss_boundary).res.ok
        masked == MaskFlags(cfg, w.mask_lus, w.mask_dem)
        old_shp == Get(cfg, "roi_shapefile", PyStr("")).s
    IN  IF ~w.use_shapefile
        THEN [roi_validated |-> is_valid,
              config |-> [cfg EXCEPT !["mask_dem_to_polygon"] = PyBool(TRUE),
                                     !["mask_lus_to_polygon"] = PyBool(TRUE)],
              roi_shapefile |-> ""]
        ELSE IF w.shapefile_option = "existing"
        THEN IF w.selected_shapefile \notin {"", ManualOption}
             THEN [roi_validated |-> TRUE, config |-> masked,
                   roi_shapefile |-> w.selected_shapefile]
             ELSE [roi_validated |-> (w.path # ""), config |-> masked,
                   roi_shapefile |-> w.path]
        ELSE IF w.drawing = NoGeometry
        THEN [roi_validated |-> roi_validated, config |-> masked,
              roi_shapefile |-> old_shp]
        ELSE IF ~is_valid
        THEN [roi_validated |-> FALSE, config |-> masked, roi_shapefile |-> old_shp]
        ELSE IF save = "saved"
        THEN [roi_validated |-> TRUE,
              config |-> [masked EXCEPT !["roi_shapefile"] = PyStr(DrawnShapefile)],
              roi_shapefile |-> DrawnShapefile]
        ELSE IF save = "failed"
        THEN [roi_validated |-> FALSE, config |-> masked, roi_shapefile |-> old_shp]
        ELSE [roi_validated |-> roi_validated, config |-> masked,
              roi_shapefile |-> old_shp]

(***************************************************************************)
(* Configuration files: what Save Config writes and what the loader reads  *)
(***************************************************************************)
\* One line of a configuration file (blank lines are left out).  kind is
\* "comment", "section" or "option"; indent tells whether the line starts
\* with blanks; value is the text after "key = ".
Line(kind, indent, section, name, value) ==
    [kind |-> kind, indent |-> indent, section |-> section, name |-> name,
     value |-> value]

CommentLine(text, value) == Line("comment", FALSE, "", text, value)

SectionLine(indent, section) == Line("section", indent, section, section, PyStr(""))

OptionLine(indent, section, name, value) == Line("option", indent, section, name, value)

RECURSIVE PoiLines(_)
\* f"{poi['name']} = {poi['x']},{poi['y']},{poi['z']}\n" for each POI
PoiLines(pois) ==
    IF pois = <<>> THEN <<>>
    ELSE << OptionLine(FALSE, "POIS", Head(pois).name,
                       PyVal("str", "joined", 0, "",
                             << str(PyFloat(Head(pois).x * 10)),
                                str(PyFloat(Head(pois).y * 10)),
                                str(PyFloat(Head(pois).z * 10)) >>)) >>
         \o PoiLines(Tail(pois))

\* '\n[POIS]\n' and the POI lines, only when the list is not empty
PoiSection(pois) ==
    IF pois = <<>> THEN <<>> ELSE <<SectionLine(FALSE, "POIS")>> \o PoiLines(pois)

\* poi_x, poi_y, poi_z of the script run: the number inputs of the bounding
\* box branch (lines 819-840), the values of the dict otherwise (lines 866-868)
poi_x(cfg, w) ==
    IF w.use_shapefile THEN float(Get(cfg, "poi_x", PyInt(645000))) ELSE PyFloat(w.x * 10)

poi_y(cfg, w) ==
    IF w.use_shapefile THEN float(Get(cfg, "poi_y", PyInt(115000))) ELSE PyFloat(w.y * 10)

poi_z(cfg, w, g) ==
    IF w.use_shapefile THEN float(Get(cfg, "poi_z", PyInt(1500))) ELSE PyFloat(g.z * 10)

\* the code written for every source
LusLinesAlways(lus_source, lus_constant) ==
    << OptionLine(FALSE, "A3D", "LUS_SOURCE", PyStr(lus_source)),
       OptionLine(FALSE, "A3D", "LUS_PREVAH_CST", str(PyInt(lus_constant))) >>

\* LUS_SOURCE, and LUS_PREVAH_CST if lus_source == "constant" (lines
\* 1407-1410, 1490-1493)
LusLines(lus_source, lus_constant) ==
    <<OptionLine(FALSE, "A3D", "LUS_SOURCE", PyStr(lus_source))>>
    \o (IF lus_source = "constant"
        THEN <<OptionLine(FALSE, "A3D", "LUS_PREVAH_CST", str(PyInt(lus_constant)))>>
        ELSE <<>>)

\* both keys written, whatever the mode
RoiLinesBoth(w, roi_shapefile) ==
    << OptionLine(FALSE, "INPUT", "ROI_SHAPEFILE", PyStr(roi_shapefile)),
       OptionLine(FALSE, "INPUT", "ROI", str(PyInt(w.roi_size))) >>

\* if use_shapefile: ROI_SHAPEFILE = ... else: ROI = ... (lines 1389-1392,
\* 1472-1475)
RoiLines(w, roi_shapefile) ==
    IF w.use_shapefile
    THEN <<OptionLine(FALSE, "INPUT", "ROI_SHAPEFILE", PyStr(roi_shapefile))>>
    ELSE <<OptionLine(FALSE, "INPUT", "ROI", str(PyInt(w.roi_size)))>>

\* The lines Save Config and Start Run share (lines 1373-1420, 1460-1503);
\* indented: the lines of the triple-quoted block start with blanks.
SwissConfigLines(indented, cfg, w, roi_shapefile, g) ==
    << SectionLine(indented, "GENERAL"),
       OptionLine(indented, "GENERAL", "SIMULATION_NAME", PyStr(g.simu_name)),
       OptionLine(indented, "GENERAL", "START_DATE", strftime(g.start_dt)),
       OptionLine(indented, "GENERAL", "END_DATE", strftime(g.end_dt)),
       SectionLine(indented, "INPUT"),
       OptionLine(indented, "INPUT", "EAST_epsg2056", str(poi_x(cfg, w))),
       OptionLine(indented, "INPUT", "NORTH_epsg2056", str(poi_y(cfg, w))),
       OptionLine(indented, "INPUT", "altLV95", str(poi_z(cfg, w, g))),
       OptionLine(indented, "INPUT", "USE_SHP_ROI",
                  PyStr(IF w.use_shapefile THEN "true" ELSE "false")) >>
    \o RoiLines(w, roi_shapefile)
    \o << OptionLine(FALSE, "INPUT", "BUFFERSIZE", str(PyInt(g.buffer_size))),
       SectionLine(FALSE, "OUTPUT"),
       OptionLine(FALSE, "OUTPUT", "OUT_COORDSYS", PyStr(g.coord_sys)),
       OptionLine(FALSE, "OUTPUT", "GSD", str(PyFloat(g.gsd))),
       OptionLine(FALSE, "OUTPUT", "GSD_ref", str(PyFloat(g.gsd_ref))),
       OptionLine(FALSE, "OUTPUT", "DEM_ADDFMTLIST", PyStr("")),
       OptionLine(FALSE, "OUTPUT", "MESH_FMT", PyStr("vtu")),
       OptionLine(FALSE, "OUTPUT", "MASK_DEM_TO_POLYGON",
                  PyStr(IF bool(Get(cfg, "mask_dem_to_polygon", PyBool(TRUE)))
                        THEN "true" ELSE "false")),
       OptionLine(FALSE, "OUTPUT", "MASK_LUS_TO_POLYGON",
                  PyStr(IF bool(Get(cfg, "mask_lus_to_polygon", PyBool(TRUE)))
                        THEN "true" ELSE "false")),
       SectionLine(FALSE, "MAPS"),
       OptionLine(FALSE, "MAPS", "PLOT_HORIZON", PyStr("false")),
       SectionLine(FALSE, "A3D"),
       OptionLine(FALSE, "A3D", "USE_GROUNDEYE", PyStr("false")) >>
    \o LusLines(g.lus_source, g.lus_constant)
    \o << OptionLine(FALSE, "A3D", "DO_PVP_3D", PyStr("false")),
          OptionLine(FALSE, "A3D", "PVP_3D_FMT", PyStr("vtu")),
          OptionLine(FALSE, "A3D", "SP_BIN_PATH", PyStr("snowpack")) >>
    \o PoiSection(g.poi_list_ch)

\* Save Config of tab 6 (lines 1369-1420); now is datetime.now()
SaveConfigContent(now, cfg, w, roi_shapefile, g) ==
    << CommentLine("A3Dshell Configuration", PyStr("")),
       CommentLine("Generated", strftime(now)) >>
    \o SwissConfigLines(FALSE, cfg, w, roi_shapefile, g)

\* the temporary config of Start Run (lines 1459-1503)
TempConfigContent(cfg, w, roi_shapefile, g) ==
    <<CommentLine("Temporary A3Dshell Configuration", PyStr(""))>>
    \o SwissConfigLines(TRUE, cfg, w, roi_shapefile, g)

\* st.session_state.config.get('user_dem_path', '') in an f-string
UserDemPathText(cfg) == str(Get(cfg, "user_dem_path", PyStr("")))

\* The lines Save Config and Start Setup of Other Locations share
\* (lines 1929-1958, 1985-2009); with_gsd: only the saved file has GSD.
OtherConfigLines(with_gsd, cfg, g) ==
    << SectionLine(FALSE, "GENERAL"),
       OptionLine(FALSE, "GENERAL", "SIMULATION_NAME", PyStr(g.simu_name_other)),
       SectionLine(FALSE, "INPUT"),
       OptionLine(FALSE, "INPUT", "DEM_MODE", PyStr("user_provided")),
       OptionLine(FALSE, "INPUT", "USER_DEM_PATH", UserDemPathText(cfg)),
       OptionLine(FALSE, "INPUT", "TARGET_EPSG", str(PyInt(g.target_epsg))),
       SectionLine(FALSE, "OUTPUT"),
       OptionLine(FALSE, "OUTPUT", "OUT_COORDSYS",
                  PyVal("str", "EPSG:", g.target_epsg, "", <<>>)) >>
    \o (IF with_gsd
        THEN <<OptionLine(FALSE, "OUTPUT", "GSD", str(PyFloat(g.gsd_other)))>>
        ELSE <<>>)
    \o << OptionLine(FALSE, "OUTPUT", "DEM_ADDFMTLIST", PyStr("")),
          OptionLine(FALSE, "OUTPUT", "MESH_FMT", PyStr("vtu")),
          SectionLine(FALSE, "MAPS"),
          OptionLine(FALSE, "MAPS", "PLOT_HORIZON", PyStr("false")),
          SectionLine(FALSE, "A3D"),
          OptionLine(FALSE, "A3D", "USE_GROUNDEYE", PyStr("false")),
          OptionLine(FALSE, "A3D", "LUS_SOURCE", PyStr("constant")),
          OptionLine(FALSE, "A3D", "LUS_PREVAH_CST", str(PyInt(g.lus_constant_other))),
          OptionLine(FALSE, "A3D", "DO_PVP_3D", PyStr("false")),
          OptionLine(FALSE, "A3D", "PVP_3D_FMT", PyStr("vtu")),
          OptionLine(FALSE, "A3D", "SP_BIN_PATH", PyStr("input/bin/snowpack")) >>
    \o PoiSection(g.poi_list)

\* Save Config of Other Locations (lines 1926-1958)
SaveConfigOtherContent(now, cfg, g) ==
    << CommentLine("A3Dshell Configuration - Other Locations Mode", PyStr("")),
       CommentLine("Generated", strftime(now)) >>
    \o OtherConfigLines(TRUE, cfg, g)

\* the temporary config of Start Setup (lines 1984-2009)
TempConfigOtherContent(cfg, g) ==
    <<CommentLine("Temporary A3Dshell Configuration - Other Locations", PyStr(""))>>
    \o OtherConfigLines(FALSE, cfg, g)

\* files under config/: write replaces the content of the path
WriteFile(fs, path, content) ==
    {f \in fs : f.path # path} \cup {[path |-> path, content |-> content]}

Exists(fs, path) == \E f \in fs : f.path = path

FileContent(fs, path) == (CHOOSE f \in fs : f.path = path).content

\* ConfigParser.optionxform: option names are lower-cased
optionxform(name) ==
    CASE name = "SIMULATION_NAME" -> "simulation_name"
      [] name = "START_DATE" -> "start_date"
      [] name = "END_DATE" -> "end_date"
      [] name = "EAST_epsg2056" -> "east_epsg2056"
      [] name = "NORTH_epsg2056" -> "north_epsg2056"
      [] name = "altLV95" -> "altlv95"
      [] name = "USE_SHP_ROI" -> "use_shp_roi"
      [] name = "ROI" -> "roi"
      [] name = "BUFFERSIZE" -> "buffersize"
      [] name = "ROI_SHAPEFILE" -> "roi_shapefile"
      [] name = "OUT_COORDSYS" -> "out_coordsys"
      [] name = "GSD" -> "gsd"
      [] name = "GSD_ref" -> "gsd_ref"
      [] name = "LUS_SOURCE" -> "lus_source"
      [] name = "USE_LUS_TLM" -> "use_lus_tlm"
      [] name = "LUS_PREVAH_CST" -> "lus_prevah_cst"
      [] OTHER -> name

OptionAt(content, i, section, key) ==
    /\ content[i].kind = "option"
    /\ content[i].section = section
    /\ optionxform(content[i].name) = optionxform(key)

\* "SECTION" in parser
HasSection(content, section) ==
    \E i \in 1..Len(content) : content[i].kind = "section" /\ content[i].section = section

\* "KEY" in parser["SECTION"]
HasOption(content, section, key) ==
    \E i \in 1..Len(content) : OptionAt(content, i, section, key)

\* parser.read(config_path) of the strict ConfigParser: an option twice in one
\* section raises DuplicateOptionError
ReadRaises(content) ==
    \E i, j \in 1..Len(content) :
        /\ i < j
        /\ content[i].kind = "option"
        /\ OptionAt(content, j, content[i].section, content[i].name)

\* parser.get(section, key, fallback=...)
ParserGet(content, section, key, fallback) ==
    IF HasOption(content, section, key)
    THEN content[CHOOSE i \in 1..Len(content) : OptionAt(content, i, section, key)].value
    ELSE fallback

\* parser.getboolean(section, key, fallback=...): ValueError for other texts
getboolean(content, section, key, fallback) ==
    LET v == ParserGet(content, section, key, Missing)
        lower == CASE v.s \in {"True", "TRUE"} -> "true"
                   [] v.s \in {"False", "FALSE"} -> "false"
                   [] OTHER -> v.s
    IN  IF v = Missing THEN PyBool(fallback)
        ELSE IF v.form = "text" /\ lower \in {"1", "yes", "true", "on"} THEN PyBool(TRUE)
        ELSE IF v.form = "text" /\ lower \in {"0", "no", "false", "off"} THEN PyBool(FALSE)
        ELSE Raised

\* lines 418-426 without the elif branch of the legacy key
LoadLusSourceNoLegacy(content) ==
    IF HasOption(content, "A3D", "LUS_SOURCE")
    THEN ParserGet(content, "A3D", "LUS_SOURCE", PyStr("tlm"))
    ELSE PyStr("tlm")

\* lines 418-426: LUS_SOURCE, or the legacy USE_LUS_TLM, or "tlm"
LoadLusSource(content) ==
    IF HasOption(content, "A3D", "LUS_SOURCE")
    THEN ParserGet(content, "A3D", "LUS_SOURCE", PyStr("tlm"))
    ELSE IF HasOption(content, "A3D", "USE_LUS_TLM")
    THEN LET use_tlm == getboolean(content, "A3D", "USE_LUS_TLM", FALSE)
         IN  IF use_tlm = Raised THEN Raised
             ELSE PyStr(IF bool(use_tlm) THEN "tlm" ELSE "constant")
    ELSE PyStr("tlm")

LoadGeneral(cfg, content) ==
    IF ~HasSection(content, "GENERAL") THEN cfg
    ELSE [cfg EXCEPT
            !["simu_name"] = ParserGet(content, "GENERAL", "SIMULATION_NAME", PyStr("")),
            !["start_date"] = ParserGet(content, "GENERAL", "START_DATE", PyStr("")),
            !["end_date"] = ParserGet(content, "GENERAL", "END_DATE", PyStr(""))]

LoadInput(cfg, content) ==
    IF ~HasSection(content, "INPUT") THEN cfg
    ELSE [cfg EXCEPT
            !["poi_x"] = ParserGet(content, "INPUT", "EAST_epsg2056", PyStr("")),
            !["poi_y"] = ParserGet(content, "INPUT", "NORTH_epsg2056", PyStr("")),
            !["poi_z"] = ParserGet(content, "INPUT", "altLV95", PyStr("")),
            !["use_shp"] = getboolean(content, "INPUT", "USE_SHP_ROI", FALSE),
            !["roi_size"] = ParserGet(content, "INPUT", "ROI", str(PyInt(1000))),
            !["buffer_size"] = ParserGet(content, "INPUT", "BUFFERSIZE", str(PyInt(50000))),
            !["roi_shapefile"] = ParserGet(content, "INPUT", "ROI_SHAPEFILE", PyStr(""))]

LoadOutput(cfg, content) ==
    IF ~HasSection(content, "OUTPUT") THEN cfg
    ELSE [cfg EXCEPT
            !["coord_sys"] = ParserGet(content, "OUTPUT", "OUT_COORDSYS", PyStr("CH1903+")),
            !["gsd"] = ParserGet(content, "OUTPUT", "GSD", str(PyFloat(100))),
            !["gsd_ref"] = ParserGet(content, "OUTPUT", "GSD_ref", str(PyFloat(20)))]

LoadA3D(cfg, content) ==
    IF ~HasSection(content, "A3D") THEN cfg
    ELSE [cfg EXCEPT
            !["lus_source"] = LoadLusSource(content),
            !["lus_cst"] = ParserGet(content, "A3D", "LUS_PREVAH_CST", str(PyInt(11500)))]

\* "Load selected config" (lines 392-427): the dict it leaves, and whether
\* it raised (parser.read at line 395, getboolean at lines 408 and 423)
LoadConfigFile(cfg, content) ==
    IF ReadRaises(content) THEN [raised |-> TRUE, config |-> cfg]
    ELSE IF /\ HasSection(content, "INPUT")
            /\ getboolean(content, "INPUT", "USE_SHP_ROI", FALSE) = Raised
    THEN [raised |-> TRUE,
          config |-> [LoadGeneral(cfg, content) EXCEPT
                        !["poi_x"] = ParserGet(content, "INPUT", "EAST_epsg2056", PyStr("")),
                        !["poi_y"] = ParserGet(content, "INPUT", "NORTH_epsg2056", PyStr("")),
                        !["poi_z"] = ParserGet(content, "INPUT", "altLV95", PyStr(""))]]
    ELSE IF HasSection(content, "A3D") /\ LoadLusSource(content) = Raised
    THEN [raised |-> TRUE,
          config |-> LoadOutput(LoadInput(LoadGeneral(cfg, content), content), content)]
    ELSE [raised |-> FALSE,
          config |-> LoadA3D(LoadOutput(LoadInput(LoadGeneral(cfg, content), content),
                                        content), content)]

\* the dict at the start of the script run, after lines 385-427
LoadedConfig(cfg, fs, selected_config) ==
    IF selected_config = CreateNew THEN [raised |-> FALSE, config |-> cfg]
    ELSE LoadConfigFile(cfg, FileContent(fs, selected_config))

\* a date of the dict, or the default when it is empty or does not parse
\* (lines 470-480)
DefaultDate(cfg, key, dflt) ==
    LET v == Get(cfg, key, PyNone)
    IN  IF bool(v) /\ fromisoformat(v) # Raised THEN fromisoformat(v).n ELSE dflt

\* a conversion on the way to the buttons raises, which ends the script
\* run: .index() of line 460 (ValueError), float() of lines 500-501, the
\* float() of the centre (lines 821-837 or 870-872), .index() of the
\* reference resolution (lines 579, 689, 878)
ScriptRaises(cfg) ==
    LET cs == Get(cfg, "coord_sys", PyStr("CH1903+"))
    IN  \/ ~(cs.form = "text" /\ cs.s \in {"CH1903+", "CH1903", "WGS84"})
        \/ float(Get(cfg, "gsd", PyFloat(100))) = Raised
        \/ float(Get(cfg, "gsd_ref", PyFloat(20))) \notin {PyFloat(5), PyFloat(20)}
        \/ \E key \in {"poi_x", "poi_y", "poi_z"} :
               float(Get(cfg, key, PyInt(0))) = Raised

\* The values the widgets of a new session show for the dict cfg: each
\* widget's value= argument.  The radio of line 510 starts on "Draw on
\* interactive map", the map has no drawing, the mask checkboxes start
\* checked (lines 594, 604), the POI lists start empty (lines 911, 1837).
DefaultWidgets(cfg) ==
    LET use_shp == bool(Get(cfg, "use_shp", PyBool(TRUE)))
    IN  IF use_shp
        THEN Widgets(TRUE, "draw", "", "", NoGeometry, 0, 0, 0, TRUE, TRUE)
        ELSE Widgets(FALSE, "none", "", "", NoGeometry,
                     float(Get(cfg, "poi_x", PyInt(645000))).n \div 10,
                     float(Get(cfg, "poi_y", PyInt(115000))).n \div 10,
                     int(Get(cfg, "roi_size", PyInt(1000))).n, TRUE, TRUE)

\* the number input without the max() of its value= argument
GsdValueNoMax(gsd, gsd_ref) == gsd

\* value=max(float(config gsd), gsd_ref) of the output grid spacing
\* (lines 585, 695, 885), a value min_value=gsd_ref admits
GsdValue(gsd, gsd_ref) == Max2(gsd, gsd_ref)

DefaultWidgetParams(cfg, selected_config) ==
    LET gsd_ref == float(Get(cfg, "gsd_ref", PyFloat(20))).n
        src == Get(cfg, "lus_source", PyStr("tlm"))
        name == Get(cfg, "simu_name", PyStr("")).s
    IN  Params(selected_config, name,
               Get(cfg, "coord_sys", PyStr("CH1903+")).s,
               DefaultDate(cfg, "start_date", default_start),
               DefaultDate(cfg, "end_date", default_end),
               float(Get(cfg, "poi_z", PyInt(1500))).n \div 10,
               int(Get(cfg, "buffer_size", PyInt(10000))).n,
               GsdValue(float(Get(cfg, "gsd", PyFloat(100))).n, gsd_ref), gsd_ref,
               IF src.form = "text" /\ src.s \in {"tlm", "bfs", "constant"} THEN src.s ELSE "tlm",
               int(Get(cfg, "lus_cst", PyInt(11500))).n,
               <<>>, name, "", 32632,
               float(Get(cfg, "gsd", PyFloat(250))).n,
               int(Get(cfg, "lus_cst", PyInt(11500))).n, <<>>)

\* The ParameterSet of a session: the values Save Config serializes.  A field
\* that does not apply to the mode holds "" or 0.
ParameterSet(kind, simu_name, start_dt, end_dt, use_shapefile, roi_shapefile, x, y, z, roi_size, buffer_size, coord_sys, gsd, gsd_ref, mask_lus, mask_dem, lus_source, lus_constant, pois, user_dem_path, target_epsg) ==
    [kind |-> kind, simu_name |-> simu_name, start_dt |-> start_dt,
     end_dt |-> end_dt, use_shapefile |-> use_shapefile,
     roi_shapefile |-> roi_shapefile, x |-> x, y |-> y, z |-> z,
     roi_size |-> roi_size, buffer_size |-> buffer_size, coord_sys |-> coord_sys,
     gsd |-> gsd, gsd_ref |-> gsd_ref, mask_lus |-> mask_lus, mask_dem |-> mask_dem,
     lus_source |-> lus_source, lus_constant |-> lus_constant, pois |-> pois,
     user_dem_path |-> user_dem_path, target_epsg |-> target_epsg]

\* what tab 6 serializes (lines 1369-1420)
SwissParameterSet(cfg, w, roi_shapefile, g) ==
    ParameterSet("Switzerland", g.simu_name, g.start_dt, g.end_dt, w.use_shapefile,
                 IF w.use_shapefile THEN roi_shapefile ELSE "",
                 poi_x(cfg, w).n, poi_y(cfg, w).n, poi_z(cfg, w, g).n,
                 IF w.use_shapefile THEN 0 ELSE w.roi_size,
                 g.buffer_size, g.coord_sys, g.gsd, g.gsd_ref,
                 bool(Get(cfg, "mask_lus_to_polygon", PyBool(TRUE))),
                 bool(Get(cfg, "mask_dem_to_polygon", PyBool(TRUE))),
                 g.lus_source,
                 IF g.lus_source = "constant" THEN g.lus_constant ELSE 0,
                 g.poi_list_ch, "", 0)

\* what Other Locations serializes (lines 1926-1958)
OtherParameterSet(cfg, g) ==
    ParameterSet("Other Locations", g.simu_name_other, 0, 0, FALSE, "", 0, 0, 0, 0,
                 0, "", g.gsd_other, 0, FALSE, FALSE, "constant",
                 g.lus_constant_other, g.poi_list, UserDemPathText(cfg).s,
                 g.target_epsg)

(***************************************************************************)
(* The script run and the run flow                                         *)
(***************************************************************************)
\* the longest log a run prints
MaxLines == 2

\* disabled=not roi_validated (line 1452)
StartRunNeverDisabled(validated) == FALSE

StartRunDisabled(validated) == ~validated

\* config_dir / f"_temp_{simu_name}.ini" (lines 1457, 1982)
TempPath(name) == "config/_temp_" \o name \o ".ini"

\* config_dir / f"{save_config_name}.ini" (lines 1422, 1961)
ConfigPath(name) == "config/" \o name \o ".ini"

\* the environment flag of line 1215 as the script run read it, the
\* checkbox of tab 5 when it is enabled, the log levels of lines 1437, 1973
Meteo(imis, checked, log_level, log_level_other) ==
    [imis |-> imis, box |-> checked, log_level |-> log_level,
     log_level_other |-> log_level_other]

\* A3D_IMIS_AVAILABLE not set, the widgets untouched
DefaultMeteo == Meteo(FALSE, FALSE, "INFO", "INFO")

\* the checkbox of tab 5 whatever the flag
skip_snowpack_box(m) == m.box

\* skip_snowpack (lines 1217-1226): the checkbox is disabled with value=True
\* when the flag is not enabled
skip_snowpack(m) == IF ~m.imis THEN TRUE ELSE m.box

\* cmd (lines 1510-1517, 2018-2023)
Cmd(flow, temp_config, m) ==
    IF flow = "Start Run"
    THEN <<"python", "-m", "src.cli", "--config", temp_config, "--log-level", m.log_level>>
         \o (IF skip_snowpack(m) THEN <<"--skip-snowpack">> ELSE <<>>)
    ELSE <<"python", "-m", "src.cli", "--config", temp_config, "--log-level",
           m.log_level_other, "--skip-snowpack">>

\* the other session runs no flow
NoPeer == [pc |-> "idle", temp_config |-> ""]

\* the form of tab 3 was not submitted in the script run
NoForm == [name |-> "", x |-> 0, y |-> 0, z |-> -1]

\* no run flow in progress; start_run_disabled is the disabled= argument the
\* last script run gave the Start Run button; poi_form is what the form of
\* tab 3 held when "Add POI" was clicked in the script run.  In a flow, full_log is the
\* list of that name, outcome the last st.success / st.error message with
\* detail the value its f-string shows, success whether st.success was
\* called, raised the exception on its way to the except clause.
IdleRun(disabled, outcome) ==
    [pc |-> "idle", flow |-> "none", temp_config |-> "", full_log |-> <<>>,
     unlinks |-> 0, outcome |-> outcome, detail |-> "", success |-> FALSE,
     raised |-> "", start_run_disabled |-> disabled, poi_form |-> NoForm]

\* the external process: out is what it has written to the pipe so far
\* (stdout and stderr go to the same pipe: stderr=subprocess.STDOUT)
NoProcess == [state |-> "none", returncode |-> 0, out |-> <<>>, cmd |-> <<>>]

NothingSaved ==
    [done |-> FALSE, path |-> "",
     p |-> SwissParameterSet(EmptyConfig, DefaultWidgets(EmptyConfig), "", DefaultParams)]

\* A new browser session on a server that has called nothing yet: the
\* session state of lines 385-390 and the widgets before the user touches them
Init ==
    /\ cache = [filled |-> FALSE, value |-> None]
    /\ fetched = NoFetch
    /\ chk = NoCheck
    /\ roi_validated = FALSE
    /\ config = EmptyConfig
    /\ roi = [w |-> DefaultWidgets(EmptyConfig), roi_shapefile |-> ""]
    /\ params = DefaultParams
    /\ files = {}
    /\ run = IdleRun(TRUE, "")
    /\ proc = NoProcess
    /\ saved = NothingSaved
    /\ meteo = DefaultMeteo
    /\ peer = NoPeer

\* One script run from the top down to the buttons (lines 357-1356 and the
\* widgets of Other Locations): everything it stores in the session.  w and
\* g are the widget values, save the "Save ROI" button.  A conversion that
\* raises ends the script run before tab 2.
ScriptRun(w, g, save, response) ==
    LET loaded == LoadedConfig(config, files, g.selected_config)
        swiss_boundary == CachedBoundary(response)
        t == Tab2(loaded.config, w, save, swiss_boundary)
    IN  IF loaded.raised \/ ScriptRaises(loaded.config)
        THEN /\ config' = loaded.config
             /\ params' = g
             /\ UNCHANGED <<valVars, roi_validated, roi>>
        ELSE /\ roi_validated' = t.roi_validated
             /\ config' = [t.config EXCEPT
                             !["lus_source"] = PyStr(g.lus_source),
                             !["user_dem_path"] = IF g.selected_dem = "" THEN PyNone
                                                  ELSE PyStr(g.selected_dem)]
             /\ roi' = [w |-> w, roi_shapefile |-> t.roi_shapefile]
             /\ params' = g
             /\ chk' = Tab2Check(w, swiss_boundary)
             /\ IF Tab2Calls(w) THEN CallBoundary(response)
                ELSE UNCHANGED <<cache, fetched>>

\* the script run got as far as the buttons
ReachesButtons(g) ==
    LET loaded == LoadedConfig(config, files, g.selected_config)
    IN  ~loaded.raised /\ ~ScriptRaises(loaded.config)

ScriptIdle == run.pc \in {"idle", "ended"}

\* the user changes widgets: a script run in which no button is clicked
Rerun ==
    /\ ScriptIdle
    /\ \E w \in WidgetInputs, g \in SessParams, response \in SessResponses :
           ScriptRun(w, g, "none", response)
    /\ run' = IdleRun(StartRunDisabled(roi_validated'), "")
    /\ proc' = NoProcess
    /\ UNCHANGED <<files, saved>>
    /\ UNCHANGED <<meteo, peer>>

\* "Save ROI" (lines 654-671): the button exists when a drawing was validated
ClickSaveROI ==
    /\ ScriptIdle
    /\ roi.w.use_shapefile /\ roi.w.shapefile_option = "draw"
    /\ roi.w.drawing # NoGeometry
    /\ \E save \in {"saved", "failed"}, response \in SessResponses :
           /\ Tab2Check(roi.w, CachedBoundary(response)).res.ok
           /\ ScriptRun(roi.w, params, save, response)
           /\ files' = IF save = "saved"
                       THEN WriteFile(files, DrawnShapefile,
                                      <<Line("shape", FALSE, "", "roi_drawn", PyStr("EPSG:2056"))>>)
                       ELSE files
    /\ run' = IdleRun(StartRunDisabled(roi_validated'), "")
    /\ proc' = NoProcess
    /\ UNCHANGED saved
    /\ UNCHANGED <<meteo, peer>>

\* a click that checks nothing
NoOmission(flow, g, cfg) == ""

\* The checks a click makes before it writes the temporary config: the
\* message of st.error, or "" (lines 1453-1454, 1976-1979)
Omission(flow, g, cfg) ==
    IF flow = "Start Run"
    THEN (IF g.simu_name = "" THEN "Please provide a simulation name" ELSE "")
    ELSE IF g.simu_name_other = "" THEN "Please provide a simulation name"
    ELSE IF ~bool(Get(cfg, "user_dem_path", PyNone)) THEN "Please select a DEM file"
    ELSE ""

\* "Start Run" (lines 1443-1507): the script run of the click, up to the
\* temporary config it writes
ClickStartRun ==
    /\ ScriptIdle
    /\ \E response \in SessResponses :
        LET t == Tab2(config, roi.w, "none", CachedBoundary(response))
        IN  /\ ~StartRunDisabled(t.roi_validated)
            /\ ScriptRun(roi.w, params, "none", response)
            /\ IF Omission("Start Run", params, config') # ""
               THEN /\ run' = IdleRun(FALSE, Omission("Start Run", params, config'))
                    /\ UNCHANGED files
               ELSE /\ run' = [pc |-> "popen", flow |-> "Start Run",
                               temp_config |-> TempPath(params.simu_name),
                               full_log |-> <<>>, unlinks |-> 0, outcome |-> "",
                               detail |-> "", success |-> FALSE, raised |-> "",
                               start_run_disabled |-> FALSE, poi_form |-> NoForm]
                    /\ files' = WriteFile(files, TempPath(params.simu_name),
                                          TempConfigContent(config', roi.w,
                                                            t.roi_shapefile, params))
    /\ proc' = NoProcess
    /\ UNCHANGED saved
    /\ UNCHANGED <<meteo, peer>>

\* "Start Setup" of Other Locations (lines 1975-2012)
ClickStartSetup ==
    /\ ScriptIdle
    /\ \E response \in SessResponses : ScriptRun(roi.w, params, "none", response)
    /\ IF Omission("Start Setup", params, config') # ""
       THEN /\ run' = IdleRun(StartRunDisabled(roi_validated'),
                              Omission("Start Setup", params, config'))
            /\ UNCHANGED files
       ELSE /\ run' = [pc |-> "popen", flow |-> "Start Setup",
                       temp_config |-> TempPath(params.simu_name_other),
                       full_log |-> <<>>, unlinks |-> 0, outcome |-> "",
                       detail |-> "", success |-> FALSE, raised |-> "",
                       start_run_disabled |-> StartRunDisabled(roi_validated'),
                       poi_form |-> NoForm]
            /\ files' = WriteFile(files, TempPath(params.simu_name_other),
                                  TempConfigOtherContent(config', params))
    /\ proc' = NoProcess
    /\ UNCHANGED saved
    /\ UNCHANGED <<meteo, peer>>

\* subprocess.Popen(cmd, ...) (lines 1529, 2027) starts the process
PopenStarts ==
    /\ run.pc = "popen"
    /\ run' = [run EXCEPT !.pc = "stream"]
    /\ proc' = [state |-> "running", returncode |-> 0, out |-> <<>>,
                 cmd |-> Cmd(run.flow, run.temp_config, meteo)]
    /\ UNCHANGED <<valVars, sessVars, files, saved>>
    /\ UNCHANGED <<meteo, peer>>

\* subprocess.Popen raises (OSError: no such program, no memory)
PopenRaises ==
    /\ run.pc = "popen"
    /\ run' = [run EXCEPT !.pc = "except", !.raised = "OSError"]
    /\ UNCHANGED <<valVars, sessVars, files, proc, saved>>
    /\ UNCHANGED <<meteo, peer>>

\* the k-th line the process writes; every second line ends with blanks
\* before its newline
OutputLine(k) == [text |-> k, trailing |-> IF k % 2 = 0 THEN "  \n" ELSE "\n"]

\* line.rstrip()
rstrip(line) == [line EXCEPT !.trailing = ""]

\* the process writes a line to stdout or stderr while the loop reads the
\* pipe (what it does after the script stopped reading is seen by nobody)
ProcWrites ==
    /\ run.pc = "stream"
    /\ proc.state = "running"
    /\ Len(proc.out) < MaxLines
    /\ proc' = [proc EXCEPT !.out = Append(@, OutputLine(Len(@) + 1))]
    /\ UNCHANGED <<valVars, sessVars, files, run, saved>>
    /\ UNCHANGED <<meteo, peer>>

\* the process closes its end of the pipe (it is about to end)
ProcCloses ==
    /\ run.pc = "stream"
    /\ proc.state = "running"
    /\ proc' = [proc EXCEPT !.state = "closed"]
    /\ UNCHANGED <<valVars, sessVars, files, run, saved>>
    /\ UNCHANGED <<meteo, peer>>

\* the line read last put in front of the others
StreamLinePrepends ==
    /\ run.pc = "stream"
    /\ Len(run.full_log) < Len(proc.out)
    /\ run' = [run EXCEPT !.full_log = <<rstrip(proc.out[Len(@) + 1])>> \o @]
    /\ UNCHANGED <<valVars, sessVars, files, proc, saved>>
    /\ UNCHANGED <<meteo, peer>>

\* for line in process.stdout: full_log.append(line.rstrip()) and the
\* placeholder shows the joined full_log (lines 1538-1541, 2040-2042)
StreamLine ==
    /\ run.pc = "stream"
    /\ Len(run.full_log) < Len(proc.out)
    /\ run' = [run EXCEPT !.full_log = Append(@, rstrip(proc.out[Len(@) + 1]))]
    /\ UNCHANGED <<valVars, sessVars, files, proc, saved>>
    /\ UNCHANGED <<meteo, peer>>

\* reading a line or showing the log raises (UnicodeDecodeError, ...)
StreamRaises ==
    /\ run.pc = "stream"
    /\ run' = [run EXCEPT !.pc = "except", !.raised = "UnicodeDecodeError"]
    /\ UNCHANGED <<valVars, sessVars, files, proc, saved>>
    /\ UNCHANGED <<meteo, peer>>

\* every line was read and the pipe is closed: the loop ends
StreamEnds ==
    /\ run.pc = "stream"
    /\ proc.state = "closed"
    /\ Len(run.full_log) = Len(proc.out)
    /\ run' = [run EXCEPT !.pc = "wait"]
    /\ UNCHANGED <<valVars, sessVars, files, proc, saved>>
    /\ UNCHANGED <<meteo, peer>>

\* exit codes of the process: success, an error, killed by signal 9
ExitCodes == {0, 1, -9}

\* process.wait() (lines 1543, 2045) returns when the process has exited
Wait ==
    /\ run.pc = "wait"
    /\ \E returncode \in ExitCodes :
           proc' = [proc EXCEPT !.state = "exited", !.returncode = returncode]
    /\ run' = [run EXCEPT !.pc = "report"]
    /\ UNCHANGED <<valVars, sessVars, files, saved>>
    /\ UNCHANGED <<meteo, peer>>

\* every exit code reported as a success
ReportedAlwaysSuccess(returncode) == "completed successfully"

\* if process.returncode == 0: st.success(...) else: st.error(...)
\* (lines 1545-1571, 2047-2051)
Reported(returncode) ==
    IF returncode = 0 THEN "completed successfully" ELSE "failed with exit code"

\* the report on process.returncode; the error message shows the code
\* (f"... failed with exit code {process.returncode}")
Report ==
    /\ run.pc = "report"
    /\ run' = [run EXCEPT !.pc = "finally",
                          !.outcome = Reported(proc.returncode),
                          !.success = (Reported(proc.returncode) = "completed successfully"),
                          !.detail = IF Reported(proc.returncode) = "completed successfully"
                                     THEN "" ELSE ToString(proc.returncode)]
    /\ UNCHANGED <<valVars, sessVars, files, proc, saved>>
    /\ UNCHANGED <<meteo, peer>>

\* Start Run, after st.success: reading the ZIP file for the download button
\* raises (lines 1559-1562: open(zip_path, "rb"), f.read())
ReportRaises ==
    /\ run.pc = "report"
    /\ run.flow = "Start Run"
    /\ Reported(proc.returncode) = "completed successfully"
    /\ run' = [run EXCEPT !.pc = "except", !.outcome = "completed successfully",
                          !.success = TRUE, !.raised = "PermissionError"]
    /\ UNCHANGED <<valVars, sessVars, files, proc, saved>>
    /\ UNCHANGED <<meteo, peer>>

\* the exception passed by without a message
ExceptSilent ==
    /\ run.pc = "except"
    /\ run' = [run EXCEPT !.pc = "finally"]
    /\ UNCHANGED <<valVars, sessVars, files, proc, saved>>
    /\ UNCHANGED <<meteo, peer>>

\* except Exception as e: st.error(f"... {str(e)}") (lines 1573-1574,
\* 2053-2054)
Except ==
    /\ run.pc = "except"
    /\ run' = [run EXCEPT !.pc = "finally", !.outcome = "Error running",
                          !.detail = run.raised]
    /\ UNCHANGED <<valVars, sessVars, files, proc, saved>>
    /\ UNCHANGED <<meteo, peer>>

\* the body of finally without its unlink
finally_keeps(fs, temp_config) == fs

\* if temp_config.exists(): temp_config.unlink() (lines 1578-1579, 2057-2058)
finally_unlink(fs, temp_config) ==
    IF Exists(fs, temp_config) THEN {f \in fs : f.path # temp_config} ELSE fs

Finally ==
    /\ run.pc = "finally"
    /\ files' = finally_unlink(files, run.temp_config)
    /\ run' = [run EXCEPT !.pc = "ended",
                          !.unlinks = IF Exists(files, run.temp_config) THEN @ + 1 ELSE @]
    /\ UNCHANGED <<valVars, sessVars, proc, saved>>
    /\ UNCHANGED <<meteo, peer>>

Next ==
    \/ Rerun
    \/ ClickSaveROI
    \/ ClickStartRun
    \/ ClickStartSetup
    \/ PopenStarts
    \/ PopenRaises
    \/ ProcWrites
    \/ ProcCloses
    \/ StreamLine
    \/ StreamRaises
    \/ StreamEnds
    \/ Wait
    \/ Report
    \/ ReportRaises
    \/ Except
    \/ Finally
    \/ CacheExpires

Spec == Init /\ [][Next]_vars

\* the validators alone, called with every sample input
ValNext == ValidatePoint \/ ValidatePolygon \/ CacheExpires

SpecValidate == Init /\ [][ValNext]_vars

(***************************************************************************)
(* Saving and loading configurations                                       *)
(***************************************************************************)
\* the tab 2 widget values of the sessions that save and load (the API is
\* down in these sessions)
CfgWidgetInputs ==
    { Widgets(FALSE, "none", "", "", NoGeometry, 2600000, 1200000, 2000, TRUE, TRUE),
      Widgets(TRUE, "draw", "", "", NoGeometry, 0, 0, 0, TRUE, TRUE) }
    \cup { Widgets(TRUE, "existing", "config/shapefiles/a.shp", "", NoGeometry,
                   0, 0, 0, ml, md) : ml \in BOOLEAN, md \in BOOLEAN }

\* the other widget values of these sessions: settings away from the
\* defaults with one POI in each list, and the defaults under a name (both
\* modes save under the same name, so to the same file)
CfgParams ==
    { Params(CreateNew, "sim", "CH1903", 86400, 172800, 1800, 20000, 50, 5,
             "constant", 11600, <<Poi("P1", 2600000, 1200000, 1800)>>, "sim",
             "dem.tif", 2056, 100, 11600, <<Poi("P1", 500000, 5000000, 900)>>),
      [DefaultParams EXCEPT !.simu_name = "sim", !.simu_name_other = "sim",
                            !.selected_dem = "dem.tif"] }

\* datetime.now() at the time of a save, in seconds
Clock == {3600, 7200}

\* the user changes widgets with "Create New" selected in the sidebar (the
\* sessions that edit and save are those that loaded nothing)
CfgEdit ==
    /\ params.selected_config = CreateNew
    /\ \E w \in CfgWidgetInputs, g \in CfgParams, response \in {r \in Responses : r.raises} :
           ScriptRun(w, g, "none", response)
    /\ run' = IdleRun(StartRunDisabled(roi_validated'), "")
    /\ UNCHANGED <<files, proc, saved>>
    /\ UNCHANGED <<meteo, peer>>

\* "Save Config" of tab 6 (lines 1357-1427)
ClickSaveConfig ==
    /\ params.selected_config = CreateNew
    /\ \E now \in Clock, response \in {r \in Responses : r.raises} :
        LET save_config_name == IF params.simu_name # "" THEN params.simu_name
                                ELSE "my_simulation"
            t == Tab2(config, roi.w, "none", CachedBoundary(response))
        IN  /\ ScriptRun(roi.w, params, "none", response)
            /\ files' = WriteFile(files, ConfigPath(save_config_name),
                                  SaveConfigContent(now, t.config, roi.w,
                                                    t.roi_shapefile, params))
            /\ saved' = [done |-> TRUE, path |-> ConfigPath(save_config_name),
                         p |-> SwissParameterSet(t.config, roi.w, t.roi_shapefile,
                                                 params)]
    /\ run' = IdleRun(StartRunDisabled(roi_validated'), "Configuration saved")
    /\ UNCHANGED proc
    /\ UNCHANGED <<meteo, peer>>

\* "Save Config" of Other Locations (lines 1921-1966)
ClickSaveConfigOther ==
    /\ params.selected_config = CreateNew
    /\ \E now \in Clock, response \in {r \in Responses : r.raises} :
        /\ ScriptRun(roi.w, params, "none", response)
        /\ IF params.simu_name_other = ""
           THEN /\ run' = IdleRun(StartRunDisabled(roi_validated'),
                                  "Please provide a config filename")
                /\ UNCHANGED <<files, saved>>
           ELSE /\ run' = IdleRun(StartRunDisabled(roi_validated'),
                                  "Configuration saved (Other Locations)")
                /\ files' = WriteFile(files, ConfigPath(params.simu_name_other),
                                      SaveConfigOtherContent(now, config', params))
                /\ saved' = [done |-> TRUE, path |-> ConfigPath(params.simu_name_other),
                             p |-> OtherParameterSet(config', params)]
    /\ UNCHANGED proc
    /\ UNCHANGED <<meteo, peer>>

\* a new browser session (lines 385-390 run again); the files stay, and so
\* does the cache, which all sessions of the server share
NewSession ==
    /\ roi_validated' = FALSE
    /\ config' = EmptyConfig
    /\ roi' = [w |-> DefaultWidgets(EmptyConfig), roi_shapefile |-> ""]
    /\ params' = DefaultParams
    /\ chk' = NoCheck
    /\ run' = IdleRun(TRUE, "")
    /\ UNCHANGED <<cache, fetched, files, proc, saved>>
    /\ UNCHANGED <<meteo, peer>>

\* the user of a session that has only used the sidebar so far selects a
\* configuration there: the script run loads it over the dict of the session
\* and every widget shows the value of the dict
SelectConfig ==
    /\ \/ config = EmptyConfig /\ params = DefaultParams
       \/ params.selected_config # CreateNew
    /\ \E f \in files, response \in {r \in Responses : r.raises} :
        LET cfg == LoadedConfig(config, files, f.path).config
            g == DefaultWidgetParams(cfg, f.path)
        IN  /\ ScriptRun(DefaultWidgets(cfg), g, "none", response)
            /\ run' = IdleRun(StartRunDisabled(roi_validated'),
                              IF ReachesButtons(g) THEN "loaded" ELSE "script raised")
    /\ UNCHANGED <<files, proc, saved>>
    /\ UNCHANGED <<meteo, peer>>

CfgNext ==
    \/ CfgEdit
    \/ ClickSaveConfig
    \/ ClickSaveConfigOther
    \/ NewSession
    \/ SelectConfig

SpecConfig == Init /\ [][CfgNext]_vars

(***************************************************************************)
(* Loading configurations that this version did not write                  *)
(***************************************************************************)
\* a file of config/ with a name and the options of the centre
OlderConfig(name, input, output, a3d) ==
    [path |-> ConfigPath(name),
     content |-> << SectionLine(FALSE, "GENERAL"),
                    OptionLine(FALSE, "GENERAL", "SIMULATION_NAME", PyStr(name)) >>
                 \o input \o output \o a3d]

\* Files config_dir.glob("*.ini") finds that were written by hand or by an
\* older version: the legacy land-cover key (alone, beside LUS_SOURCE, with a
\* text that is no boolean), sections without their optional keys, GENERAL
\* alone, a region given as a shapefile, the coordinate system Other
\* Locations writes, values the widgets cannot show (a date and a land-cover
\* source that are no such thing, an easting with a unit, a USE_SHP_ROI that
\* is no boolean, a reference resolution of 1.0), a grid spacing finer than
\* the reference resolution, and a complete file with every value away from
\* its default.
OlderConfigs ==
    LET centre == << SectionLine(FALSE, "INPUT"),
                     OptionLine(FALSE, "INPUT", "EAST_epsg2056", str(PyInt(2600000))),
                     OptionLine(FALSE, "INPUT", "NORTH_epsg2056", str(PyInt(1200000))),
                     OptionLine(FALSE, "INPUT", "altLV95", str(PyInt(1500))) >>
        a3d(options) == <<SectionLine(FALSE, "A3D")>> \o options
        legacy(text) == OptionLine(FALSE, "A3D", "USE_LUS_TLM", PyStr(text))
    IN  { OlderConfig("legacy_true", <<>>, <<>>, a3d(<<legacy("True")>>)),
          OlderConfig("legacy_false", <<>>, <<>>, a3d(<<legacy("false")>>)),
          OlderConfig("both_keys", <<>>, <<>>,
                      a3d(<< legacy("true"),
                             OptionLine(FALSE, "A3D", "LUS_SOURCE", PyStr("constant")) >>)),
          OlderConfig("keys_absent", centre,
                      << SectionLine(FALSE, "OUTPUT"),
                         OptionLine(FALSE, "OUTPUT", "MESH_FMT", PyStr("vtu")) >>,
                      a3d(<<OptionLine(FALSE, "A3D", "USE_GROUNDEYE", PyStr("false"))>>)),
          OlderConfig("sections_absent", <<>>, <<>>, <<>>),
          OlderConfig("legacy_maybe", <<>>, <<>>, a3d(<<legacy("maybe")>>)),
          OlderConfig("shapefile",
                      centre \o << OptionLine(FALSE, "INPUT", "USE_SHP_ROI", PyStr("true")),
                                   OptionLine(FALSE, "INPUT", "ROI_SHAPEFILE",
                                              PyStr("config/shapefiles/a.shp")) >>,
                      <<>>, <<>>),
          OlderConfig("other_crs", <<>>,
                      << SectionLine(FALSE, "OUTPUT"),
                         OptionLine(FALSE, "OUTPUT", "OUT_COORDSYS",
                                    PyVal("str", "EPSG:", 32632, "", <<>>)),
                         OptionLine(FALSE, "OUTPUT", "GSD", str(PyFloat(250))) >>,
                      <<>>),
          OlderConfig("bad_date",
                      <<OptionLine(FALSE, "GENERAL", "START_DATE", PyStr("next winter"))>>,
                      <<>>, a3d(<<OptionLine(FALSE, "A3D", "LUS_SOURCE", PyStr("forest"))>>)),
          OlderConfig("bad_east",
                      << SectionLine(FALSE, "INPUT"),
                         OptionLine(FALSE, "INPUT", "EAST_epsg2056", PyStr("2.6e6 m")),
                         OptionLine(FALSE, "INPUT", "NORTH_epsg2056", str(PyInt(1200000))),
                         OptionLine(FALSE, "INPUT", "altLV95", str(PyInt(1500))) >>,
                      <<>>, <<>>),
          OlderConfig("bad_shp",
                      centre \o <<OptionLine(FALSE, "INPUT", "USE_SHP_ROI", PyStr("maybe"))>>,
                      <<>>, <<>>),
          OlderConfig("bad_gsd_ref", <<>>,
                      << SectionLine(FALSE, "OUTPUT"),
                         OptionLine(FALSE, "OUTPUT", "GSD_ref", str(PyFloat(10))) >>,
                      <<>>),
          OlderConfig("fine_gsd", <<>>,
                      << SectionLine(FALSE, "OUTPUT"),
                         OptionLine(FALSE, "OUTPUT", "GSD", str(PyFloat(10))),
                         OptionLine(FALSE, "OUTPUT", "GSD_ref", str(PyFloat(20))) >>,
                      <<>>),
          OlderConfig("complete",
                      centre \o << OptionLine(FALSE, "INPUT", "USE_SHP_ROI", PyStr("false")),
                                   OptionLine(FALSE, "INPUT", "ROI", str(PyInt(2000))),
                                   OptionLine(FALSE, "INPUT", "BUFFERSIZE", str(PyInt(20000))) >>,
                      << SectionLine(FALSE, "OUTPUT"),
                         OptionLine(FALSE, "OUTPUT", "OUT_COORDSYS", PyStr("CH1903")),
                         OptionLine(FALSE, "OUTPUT", "GSD", str(PyFloat(50))),
                         OptionLine(FALSE, "OUTPUT", "GSD_ref", str(PyFloat(5))) >>,
                      a3d(<< OptionLine(FALSE, "A3D", "LUS_SOURCE", PyStr("bfs")),
                             OptionLine(FALSE, "A3D", "LUS_PREVAH_CST", str(PyInt(11600))) >>)) }

\* the files are copied into config/ (the sidebar lists them from then on)
CopyOlderConfigs ==
    /\ files' = files \cup OlderConfigs
    /\ UNCHANGED <<valVars, sessVars, run, proc, saved>>
    /\ UNCHANGED <<meteo, peer>>

LoadNext ==
    \/ CopyOlderConfigs
    \/ NewSession
    \/ SelectConfig

SpecLoad == Init /\ [][LoadNext]_vars

(***************************************************************************)
(* Runs of two sessions of one server                                      *)
(***************************************************************************)
\* the session of the model has a bounding box that validates, a name and a
\* DEM, and changes the widgets of tabs 5 and 7; the server runs with and
\* without A3D_IMIS_AVAILABLE
RunsWidgets == Widgets(FALSE, "none", "", "", NoGeometry, 2600000, 1200000, 2000, TRUE, TRUE)

RunsParams ==
    [DefaultParams EXCEPT !.simu_name = "sim", !.simu_name_other = "sim",
                          !.selected_dem = "dem.tif"]

MeteoInputs ==
    { Meteo(FALSE, FALSE, "INFO", "INFO"), Meteo(TRUE, FALSE, "DEBUG", "INFO"),
      Meteo(TRUE, TRUE, "INFO", "DEBUG") }

RunsEdit ==
    /\ ScriptIdle
    /\ \E m \in MeteoInputs, response \in {r \in Responses : r.raises} :
           /\ ScriptRun(RunsWidgets, RunsParams, "none", response)
           /\ meteo' = m
    /\ run' = IdleRun(StartRunDisabled(roi_validated'), "")
    /\ proc' = NoProcess
    /\ UNCHANGED <<files, saved, peer>>

\* the simulation names of the other session: the name of this session and
\* another one
PeerNames == {"sim", "peer"}

\* what Start Run of the other session writes (lines 1459-1503): the
\* ParameterSet of that session has another buffer size
PeerContent(name) ==
    TempConfigContent(EmptyConfig, RunsWidgets, "",
                      [DefaultParams EXCEPT !.simu_name = name, !.buffer_size = 20000])

\* Start Run in the other session (lines 1452-1535): the temporary config is
\* written and the process started
PeerStartRun ==
    /\ peer.pc = "idle"
    /\ \E name \in PeerNames :
           /\ files' = WriteFile(files, TempPath(name), PeerContent(name))
           /\ peer' = [pc |-> "running", temp_config |-> TempPath(name)]
    /\ UNCHANGED <<valVars, sessVars, run, proc, saved, meteo>>

\* the process of the other session ends and process.wait() returns
\* (line 1543)
PeerWait ==
    /\ peer.pc = "running"
    /\ peer' = [peer EXCEPT !.pc = "finally"]
    /\ UNCHANGED <<valVars, sessVars, flowVars, meteo>>

\* the finally clause of the other session (lines 1576-1579)
PeerFinally ==
    /\ peer.pc = "finally"
    /\ files' = finally_unlink(files, peer.temp_config)
    /\ peer' = NoPeer
    /\ UNCHANGED <<valVars, sessVars, run, proc, saved, meteo>>

RunsNext ==
    \/ RunsEdit
    \/ ClickStartRun
    \/ ClickStartSetup
    \/ PopenStarts
    \/ PopenRaises
    \/ ProcWrites
    \/ ProcCloses
    \/ StreamLine
    \/ StreamRaises
    \/ StreamEnds
    \/ Wait
    \/ Report
    \/ ReportRaises
    \/ Except
    \/ Finally
    \/ PeerStartRun
    \/ PeerWait
    \/ PeerFinally

SpecRuns == Init /\ [][RunsNext]_vars

(***************************************************************************)
(* Tab 3: points of interest                                               *)
(***************************************************************************)
\* the longest POI list a session builds
MaxPois == 2

\* v or d
PyOr(v, d) == IF bool(v) THEN v ELSE d

\* gpd.read_file(_roi_shapefile) (lines 923-930): it raises, or gives a
\* polygon
GdfReads == {None, Rect(2599000, 1199000, 2601000, 1201000)}

\* roi_bounds and roi_polygon (lines 914-936), in metres.  The centre and the
\* size are those of st.session_state.config, which only the loader sets.
RoiBounds(cfg, roi_gdf) ==
    LET _roi_shapefile == Get(cfg, "roi_shapefile", PyStr(""))
        _poi_x == float(PyOr(Get(cfg, "poi_x", PyInt(0)), PyInt(0))).n \div 10
        _poi_y == float(PyOr(Get(cfg, "poi_y", PyInt(0)), PyInt(0))).n \div 10
        _roi_size == float(PyOr(Get(cfg, "roi_size", PyInt(1000)), PyInt(1000))).n \div 10
        half_size == _roi_size \div 2
    IN  IF bool(_roi_shapefile)
        THEN [roi_bounds |-> IF roi_gdf = None THEN None ELSE bounds(roi_gdf),
              roi_polygon |-> roi_gdf]
        ELSE [roi_bounds |-> <<_poi_x - half_size, _poi_y - half_size,
                               _poi_x + half_size, _poi_y + half_size>>,
              roi_polygon |-> None]

\* is_poi_in_roi (lines 1037-1045)
is_poi_in_roi(r, use_shapefile, x, y) ==
    IF r.roi_polygon # None /\ use_shapefile
    THEN ContainsPoint(r.roi_polygon, <<x, y>>)
    ELSE IF r.roi_bounds # None
    THEN /\ r.roi_bounds[1] <= x /\ x <= r.roi_bounds[3]
         /\ r.roi_bounds[2] <= y /\ y <= r.roi_bounds[4]
    ELSE TRUE

\* the st.error of "Add POI" (lines 1075-1080), "" when the POI is appended
AddPoiError(form, in_roi) ==
    IF form.name = "" THEN "Please enter a POI name"
    ELSE IF form.x = 0 /\ form.y = 0 THEN "Please click on the map or enter coordinates"
    ELSE IF ~in_roi THEN "POI is outside the defined ROI boundary"
    ELSE ""

\* what the user submits in the form of tab 3: a point at the centre of the
\* box of tab 2, two points of the same name near the origin of the
\* coordinate system, no name, no coordinates
PoiForms ==
    { Poi("Summit", 2600000, 1200000, 1800), Poi("Summit", 100, 200, 0),
      Poi("Summit", 300, 400, 10), Poi("", 100, 200, 0), Poi("Summit", 0, 0, 0) }

\* the user enters a name and a bounding box in tabs 1 and 2
PoiEdit ==
    /\ \E response \in {r \in Responses : r.raises} :
           ScriptRun(RunsWidgets, [params EXCEPT !.simu_name = "sim"], "none", response)
    /\ run' = IdleRun(StartRunDisabled(roi_validated'), "")
    /\ UNCHANGED <<files, proc, saved, meteo, peer>>

\* "Add POI" (lines 1047-1092): the form is drawn when the script run got to
\* tab 3 with roi_validated set; the POI is appended and st.rerun() runs the
\* script again
ClickAddPoi ==
    /\ ReachesButtons(params)
    /\ Len(params.poi_list_ch) < MaxPois
    /\ \E form \in PoiForms, roi_gdf \in GdfReads, response \in {r \in Responses : r.raises} :
        LET t == Tab2(config, roi.w, "none", CachedBoundary(response))
            in_roi == is_poi_in_roi(RoiBounds(t.config, roi_gdf), roi.w.use_shapefile,
                                    form.x, form.y)
            error == AddPoiError(form, in_roi)
        IN  /\ t.roi_validated
            /\ ScriptRun(roi.w,
                         IF error = "" THEN [params EXCEPT !.poi_list_ch = Append(@, form)]
                         ELSE params,
                         "none", response)
            /\ run' = [IdleRun(StartRunDisabled(roi_validated'),
                               IF error = "" THEN "POI appended" ELSE error)
                          EXCEPT !.poi_form = form]
    /\ UNCHANGED <<files, proc, saved, meteo, peer>>

PoiNext ==
    \/ PoiEdit
    \/ ClickAddPoi
    \/ ClickSaveConfig
    \/ NewSession
    \/ SelectConfig

SpecPoi == Init /\ [][PoiNext]_vars


(***************************************************************************)
(* Properties of the validators (checked under SpecValidate)               *)
(***************************************************************************)
\* the extent of the geometry a validator call was given
InputGeom(c) ==
    IF c.fn = "point"
    THEN box(c.x.v - c.roi_size \div 2, c.y.v - c.roi_size \div 2,
             c.x.v + c.roi_size \div 2, c.y.v + c.roi_size \div 2)
    ELSE c.geom.lv95

\* part of g lies inside the polygon and part of it outside
PartlyInside(ring, g) ==
    /\ ~ContainsGeom(ring, g)
    /\ \/ \E j \in Edges(g) : StrictlyInside(ring, g[j])
       \/ \E i \in Edges(ring) : StrictlyInside(g, ring[i])
       \/ \E i \in Edges(ring) : \E j \in Edges(g) :
              ProperCross(ring[i], ring[i + 1], g[j], g[j + 1])

NoOverlap(ring, g) == ~IntersectsGeom(ring, g)

\* a call that ran with the reference polygon and raised nothing
WithPolygon(c) == c.fn # "none" /\ c.boundary # None /\ ~c.res.raised

BoxInputs == {q \in PointInputs \X (RoiSizes \ {0}) : Numeric(q[1][1])}

BoxOf(q) == box(q[1][1].v - q[2] \div 2, q[1][2].v - q[2] \div 2,
                q[1][1].v + q[2] \div 2, q[1][2].v + q[2] \div 2)

GoodDrawings == {g \in Drawings : g.wellformed /\ g.projectable}

\* C4 (as claimed): an internal failure of either validator gives (False, message).
C4_FailClosed == chk.res.raised => ~chk.res.ok

\* C4 (amended): an internal failure of check_polygon_in_swiss_boundaries gives
\* (False, message); an internal failure of check_swiss_boundaries gives
\* (True, "Could not validate boundaries").
C4_ExceptClauses ==
    chk.res.raised =>
        /\ chk.fn = "polygon" => ~chk.res.ok
        /\ chk.fn = "point" =>
               chk.res.ok /\ chk.res.msg.text = "Could not validate boundaries"

C4_Witness == chk.fn = "polygon" /\ chk.res.raised /\ ~chk.geom.projectable

FetchFailed(response) ==
    \/ response.raises
    \/ response.status_code # 200
    \/ response.json /\ WithRings(response) = {}

\* C7: get_swiss_boundary_polygon returns the fallback polygon whenever the
\* remote fetch fails (non-200 status, empty or geometry-less result, network
\* error or timeout).
C7_FallbackOnFetchFailure ==
    (fetched.done /\ FetchFailed(fetched.response))
        => fetched.result = Polygon(simplified_coords)

\* the whole extent of a call's input lies inside the hard-coded extent
InExtent(pt) ==
    /\ SWISS_MIN_E <= pt[1] /\ pt[1] <= SWISS_MAX_E
    /\ SWISS_MIN_N <= pt[2] /\ pt[2] <= SWISS_MAX_N

ExtentInside(c) ==
    IF c.fn = "point"
    THEN /\ InExtent(<<c.x.v, c.y.v>>)
         /\ c.roi_size # 0 => \A j \in 1..4 : InExtent(InputGeom(c)[j])
    ELSE \A j \in 1..Len(c.geom.lv95) : InExtent(c.geom.lv95[j])

\* the success messages a validator returns when it used a reference polygon
PolygonSuccessMsgs(fn) ==
    LET avail == {get_swiss_boundary_polygon(r) : r \in Responses} \ {None}
        calls == IF fn = "point"
                 THEN {check_swiss_boundaries(q[1][1], q[1][2], q[2], b) :
                          q \in {qq \in PointInputs \X RoiSizes : Numeric(qq[1][1])},
                          b \in avail}
                 ELSE {check_polygon_in_swiss_boundaries(g, b) :
                          g \in GoodDrawings, b \in avail}
    IN  {r.msg : r \in {rr \in calls : rr.ok}}

\* C8: without the reference polygon (and without an internal failure) both
\* validators accept exactly the inputs whose whole extent lies inside E in
\* [2485000, 2834000], N in [1075000, 1296000], and the success message is none
\* of the success messages returned when the reference polygon is used.
C8_DegradedExtentCheck ==
    (chk.fn # "none" /\ chk.boundary = None /\ ~chk.res.raised) =>
        /\ chk.res.ok <=> ExtentInside(chk)
        /\ chk.res.ok =>
               /\ PolygonSuccessMsgs(chk.fn) # {}
               /\ chk.res.msg \notin PolygonSuccessMsgs(chk.fn)

\* degraded mode rejected a box whose centre is inside the extent
C8_Witness ==
    /\ chk.fn = "point" /\ chk.boundary = None /\ ~chk.res.raised
    /\ chk.roi_size # 0 /\ InExtent(<<chk.x.v, chk.y.v>>) /\ ~chk.res.ok

(***************************************************************************)
(* Properties of the run flow and of the gate (checked under Spec)         *)
(***************************************************************************)
InFlow == run.pc \in {"popen", "stream", "wait", "report", "except", "finally"}

\* C1: in both run flows, once the temporary config is written it exists
\* until the finally clause, which unlinks it exactly once on every path
\* (exit code 0, exit code not 0, exception while launching or streaming),
\* so that it no longer exists when the flow has ended.
C1_TempConfigDeleted ==
    /\ InFlow => Exists(files, run.temp_config) /\ run.unlinks = 0
    /\ run.pc = "ended" => ~Exists(files, run.temp_config) /\ run.unlinks = 1
    /\ run.pc = "ended" =>
           run.outcome \in {"completed successfully", "failed with exit code",
                            "Error running"}

\* Start Setup ended on the exception path after part of the log was shown
C1_Witness ==
    /\ run.pc = "ended"
    /\ run.flow = "Start Setup"
    /\ run.outcome = "Error running"
    /\ Len(run.full_log) > 0
    /\ proc.state = "running"

\* C2: while st.session_state['roi_validated'] is False no Start Run flow
\* is under way or has just ended: the script run wrote no temporary config
\* for Start Run and launched no process for it.
C2_StartRunGated ==
    ~roi_validated =>
        /\ run.flow # "Start Run"
        /\ run.flow = "none" => proc = NoProcess /\ ~Exists(files, TempPath(params.simu_name))

\* the bounding box failed validation and the script run drew Start Run
\* disabled, with a simulation name entered
C2_Witness ==
    /\ ~roi_validated
    /\ run.start_run_disabled
    /\ ~roi.w.use_shapefile
    /\ chk.fn = "point" /\ ~chk.res.ok
    /\ chk.x = Num(roi.w.x) /\ chk.y = Num(roi.w.y)
    /\ params.simu_name # ""
    /\ run.pc = "idle"

\* the last validator call was made for the spatial parameters of the last
\* script run
CheckedCurrent ==
    IF ~roi.w.use_shapefile
    THEN /\ chk.fn = "point"
         /\ chk.x = Num(roi.w.x) /\ chk.y = Num(roi.w.y)
         /\ chk.roi_size = roi.w.roi_size
    ELSE /\ roi.w.shapefile_option = "draw"
         /\ roi.w.drawing # NoGeometry
         /\ chk.fn = "polygon"
         /\ chk.geom = roi.w.drawing

\* C3: whenever roi_validated is True the boundary validator has most
\* recently returned success for the current spatial parameters.
C3_ValidatedMeansChecked == roi_validated => chk.res.ok /\ CheckedCurrent

(***************************************************************************)
(* Properties of saving and loading (checked under SpecConfig)             *)
(***************************************************************************)
\* the value of an option of a saved file is the text "true"
SavedTrue(content, key) == ParserGet(content, "OUTPUT", key, Missing) = PyStr("true")

\* C9: the stored flags and the flags of every saved file have
\* MASK_DEM_TO_POLYGON true only if MASK_LUS_TO_POLYGON is true; a script
\* run with the elevation checkbox set and the land-cover checkbox clear
\* stores mask_dem_to_polygon = False.
C9_MaskDemNeedsMaskLus ==
    /\ bool(Get(config, "mask_dem_to_polygon", PyBool(TRUE)))
           => bool(Get(config, "mask_lus_to_polygon", PyBool(TRUE)))
    /\ \A f \in files :
           SavedTrue(f.content, "MASK_DEM_TO_POLYGON")
               => SavedTrue(f.content, "MASK_LUS_TO_POLYGON")
    /\ (roi.w.use_shapefile /\ ~roi.w.mask_lus /\ config["mask_lus_to_polygon"] # Missing)
           => config["mask_dem_to_polygon"] = PyBool(FALSE)

\* a file was saved while the elevation checkbox was set and the land-cover
\* checkbox clear
C9_Witness ==
    /\ roi.w.use_shapefile /\ roi.w.mask_dem /\ ~roi.w.mask_lus
    /\ saved.done /\ Exists(files, saved.path)
    /\ saved.p.kind = "Switzerland"
    /\ ~SavedTrue(FileContent(files, saved.path), "MASK_DEM_TO_POLYGON")
    /\ ~saved.p.mask_dem

\* the ParameterSet the session shows, of the kind that was saved
ShownParameterSet ==
    IF saved.p.kind = "Switzerland"
    THEN SwissParameterSet(config, roi.w, roi.roi_shapefile, params)
    ELSE OtherParameterSet(config, params)

\* C10: a new session that loads the file Save Config wrote last shows a
\* ParameterSet equal to the one that was saved.
C10_RoundTrip ==
    (saved.done /\ params.selected_config = saved.path)
        => run.outcome = "loaded" /\ ShownParameterSet = saved.p

\* a Save Config click that saves again, under the same file name, the
\* ParameterSet the last Save Config click saved
SavesAgain ==
    /\ saved.done /\ Exists(files, saved.path)
    /\ saved'.done /\ saved'.p = saved.p /\ saved'.path = saved.path

\* C11: two Save Config clicks with the same ParameterSet, whatever the time
\* of each click, write the same file content.
C11_Deterministic ==
    [][SavesAgain => FileContent(files', saved.path) = FileContent(files, saved.path)]_vars

(***************************************************************************)
(* Properties of loading older files (checked under SpecLoad)              *)
(***************************************************************************)
\* the session has a file selected in the sidebar, which its last script
\* run loaded
FileLoaded == params.selected_config # CreateNew

LoadedContent == FileContent(files, params.selected_config)

\* C12: after loading a file whose [A3D] section has USE_LUS_TLM and no
\* LUS_SOURCE, lus_source is "tlm" when the legacy value is true and
\* "constant" when it is false; a LUS_SOURCE option of the file wins over
\* USE_LUS_TLM (a script run that gets to the select box of line 1142 shows
\* it, or "tlm" when it is none of its three sources, and line 1203 stores
\* what the box shows).
C12_LegacyLusKey ==
    FileLoaded =>
        LET legacy == ParserGet(LoadedContent, "A3D", "USE_LUS_TLM", Missing)
            source == ParserGet(LoadedContent, "A3D", "LUS_SOURCE", Missing)
        IN  /\ source # Missing =>
                   config["lus_source"] =
                       IF run.outcome = "loaded" /\ source.s \notin {"tlm", "bfs", "constant"}
                       THEN PyStr("tlm") ELSE source
            /\ (source = Missing /\ legacy \in {PyStr("true"), PyStr("True")})
                   => config["lus_source"] = PyStr("tlm")
            /\ (source = Missing /\ legacy \in {PyStr("false"), PyStr("False")})
                   => config["lus_source"] = PyStr("constant")

\* a file with USE_LUS_TLM = false and no LUS_SOURCE was loaded, and the
\* land-cover select box shows "constant"
C12_Witness ==
    /\ FileLoaded
    /\ params.selected_config = ConfigPath("legacy_false")
    /\ run.outcome = "loaded"
    /\ config["lus_source"] = PyStr("constant")
    /\ params.lus_source = "constant"

\* the value a widget reads from the dict for an optional field
\* (lines 845, 1230, 460, 500-501, 1157, 1134)
Held(key) ==
    CASE key = "roi_size" -> int(Get(config, key, PyInt(1000)))
      [] key = "buffer_size" -> int(Get(config, key, PyInt(10000)))
      [] key = "coord_sys" -> Get(config, key, PyStr("CH1903+"))
      [] key = "gsd" -> float(Get(config, key, PyFloat(100)))
      [] key = "gsd_ref" -> float(Get(config, key, PyFloat(20)))
      [] key = "lus_cst" -> int(Get(config, key, PyInt(11500)))
      [] OTHER -> Get(config, key, PyStr("tlm"))

\* C13: after loading a file, every optional field whose key the file does
\* not have holds its documented default (ROI 1000, BUFFERSIZE 50000,
\* OUT_COORDSYS CH1903+, GSD 10.0, GSD_ref 2.0, LUS_PREVAH_CST 11500,
\* lus_source tlm), whatever the session held before the load.
C13_DefaultsForAbsentKeys ==
    FileLoaded =>
        LET absent(section, key) == ~HasOption(LoadedContent, section, key)
        IN  /\ absent("INPUT", "ROI") => Held("roi_size") = PyInt(1000)
            /\ absent("INPUT", "BUFFERSIZE") => Held("buffer_size") = PyInt(50000)
            /\ absent("OUTPUT", "OUT_COORDSYS") => Held("coord_sys") = PyStr("CH1903+")
            /\ absent("OUTPUT", "GSD") => Held("gsd") = PyFloat(100)
            /\ absent("OUTPUT", "GSD_ref") => Held("gsd_ref") = PyFloat(20)
            /\ absent("A3D", "LUS_PREVAH_CST") => Held("lus_cst") = PyInt(11500)
            /\ (absent("A3D", "LUS_SOURCE") /\ absent("A3D", "USE_LUS_TLM"))
                   => Held("lus_source") = PyStr("tlm")

\* C21: loading a file that parses but holds a value its widget cannot show
\* never ends the script run early: the script run gets as far as the
\* buttons, dates that do not parse give the default period and an unknown
\* land-cover source gives "tlm".
C21_InvalidValueFallsBack ==
    (FileLoaded /\ ~ReadRaises(LoadedContent)) =>
        /\ run.outcome = "loaded"
        /\ fromisoformat(Get(config, "start_date", PyStr(""))) = Raised
               => params.start_dt = default_start
        /\ Get(config, "lus_source", PyStr("tlm")).s \notin {"tlm", "bfs", "constant"}
               => params.lus_source = "tlm"

(***************************************************************************)
(* Properties of the serialized text (checked under SpecConfig)            *)
(***************************************************************************)
\* how many lines of the text are "name = ..."
KeyCount(content, name) ==
    Cardinality({i \in 1..Len(content) :
                    content[i].kind = "option" /\ content[i].name = name})

\* the text was written for Switzerland mode
SwissText(content) == KeyCount(content, "USE_SHP_ROI") > 0

\* the text Start Run would write for the session as it is
TempTextNow == TempConfigContent(config, roi.w, roi.roi_shapefile, params)

\* ROI_SHAPEFILE and no ROI with USE_SHP_ROI = true, ROI and no
\* ROI_SHAPEFILE with USE_SHP_ROI = false
OneRoiKey(content) ==
    LET use_shp == ParserGet(content, "INPUT", "USE_SHP_ROI", Missing)
    IN  /\ use_shp \in {PyStr("true"), PyStr("false")}
        /\ KeyCount(content, "ROI_SHAPEFILE") = (IF use_shp = PyStr("true") THEN 1 ELSE 0)
        /\ KeyCount(content, "ROI") = (IF use_shp = PyStr("true") THEN 0 ELSE 1)

\* C14: every text written in Switzerland mode, by Save Config or as the
\* temporary config of Start Run, has exactly one of the keys ROI and
\* ROI_SHAPEFILE: ROI_SHAPEFILE with USE_SHP_ROI = true, ROI with
\* USE_SHP_ROI = false; a bounding box of size n is written as ROI = n.
C14_OneRoiKey ==
    /\ \A f \in files : SwissText(f.content) => OneRoiKey(f.content)
    /\ OneRoiKey(TempTextNow)
    /\ ~roi.w.use_shapefile =>
           ParserGet(TempTextNow, "INPUT", "ROI", Missing) = str(PyInt(roi.w.roi_size))
    /\ (saved.done /\ saved.p.kind = "Switzerland" /\ ~saved.p.use_shapefile) =>
           ParserGet(FileContent(files, saved.path), "INPUT", "ROI", Missing)
               = str(PyInt(saved.p.roi_size))

\* a bounding box of size 2000 was saved: the file has ROI = 2000 and no
\* ROI_SHAPEFILE
C14_Witness ==
    /\ saved.done /\ saved.p.kind = "Switzerland" /\ ~saved.p.use_shapefile
    /\ saved.p.roi_size = 2000
    /\ KeyCount(FileContent(files, saved.path), "ROI") = 1
    /\ KeyCount(FileContent(files, saved.path), "ROI_SHAPEFILE") = 0
    /\ ~roi.w.use_shapefile

\* the text Start Setup would write for the session as it is
TempTextOtherNow == TempConfigOtherContent(config, params)

\* LUS_SOURCE once, with one of the three tags, and LUS_PREVAH_CST exactly
\* when the tag is constant, with an integer code
LusKeys(content) ==
    LET source == ParserGet(content, "A3D", "LUS_SOURCE", Missing)
        code == ParserGet(content, "A3D", "LUS_PREVAH_CST", Missing)
    IN  /\ KeyCount(content, "LUS_SOURCE") = 1
        /\ source \in {PyStr("tlm"), PyStr("bfs"), PyStr("constant")}
        /\ KeyCount(content, "LUS_PREVAH_CST") = (IF source = PyStr("constant") THEN 1 ELSE 0)
        /\ source = PyStr("constant") => int(code) # Raised

\* C15: every serialized config (saved or temporary, either mode) has
\* LUS_SOURCE with a value in {tlm, bfs, constant} and has LUS_PREVAH_CST if
\* and only if LUS_SOURCE = constant, with the code that was chosen.
C15_LusKeys ==
    /\ \A f \in files : LusKeys(f.content)
    /\ LusKeys(TempTextNow) /\ LusKeys(TempTextOtherNow)
    /\ (saved.done /\ saved.p.lus_source = "constant") =>
           ParserGet(FileContent(files, saved.path), "A3D", "LUS_PREVAH_CST", Missing)
               = str(PyInt(saved.p.lus_constant))

\* Switzerland mode saved the source "constant" with the code 11600, and
\* the session still shows them
C15_Witness ==
    /\ saved.done /\ saved.p.kind = "Switzerland"
    /\ saved.p.lus_source = "constant" /\ saved.p.lus_constant = 11600
    /\ params.lus_source = "constant"
    /\ KeyCount(FileContent(files, saved.path), "LUS_PREVAH_CST") = 1

(***************************************************************************)
(* Properties of the report of a run (checked under Spec)                  *)
(***************************************************************************)
\* process.wait() has returned and the exit code was looked at, in the flow
\* under way or just ended
Terminated ==
    /\ run.pc \in {"except", "finally", "ended"}
    /\ proc.state = "exited"
    /\ run.raised \in {"", "PermissionError"}

\* C16: in both run flows success is reported if and only if the process
\* ended with exit code 0; for every other exit code a failure that carries
\* the code is reported, and no success.
C16_SuccessOnlyOnZero ==
    /\ run.success => Terminated /\ proc.returncode = 0
    /\ Terminated =>
           IF proc.returncode = 0 THEN run.success
           ELSE /\ ~run.success
                /\ run.outcome = "failed with exit code"
                /\ run.detail = ToString(proc.returncode)

\* Start Setup ended after its process was killed by signal 9
C16_Witness ==
    /\ run.pc = "ended" /\ run.flow = "Start Setup"
    /\ proc.state = "exited" /\ proc.returncode = -9
    /\ run.outcome = "failed with exit code" /\ run.detail = "-9"
    /\ ~run.success

\* the log shown is the lines the process wrote first, in that order, each
\* without its line end
LogIsPrefix ==
    /\ Len(run.full_log) <= Len(proc.out)
    /\ \A i \in 1..Len(run.full_log) :
           /\ run.full_log[i].text = proc.out[i].text
           /\ run.full_log[i].trailing = ""

\* the exit code has been reported
CodeReported == run.success \/ run.outcome = "failed with exit code"

\* C17: during a run the log shown is at every moment a prefix, in the
\* order of writing, of the lines the process wrote to stdout and stderr; it
\* grows by one line at a time while the process runs; the exit code is
\* reported only after the process has ended and all its lines are in the
\* log; a process that wrote two lines leaves exactly these two in the log.
C17_LogStreams ==
    /\ [](InFlow \/ run.pc = "ended" => LogIsPrefix)
    /\ [](proc.state = "exited" /\ Len(proc.out) = 2
             => /\ Len(run.full_log) = 2
                /\ run.full_log[1].text = 1 /\ run.full_log[2].text = 2)
    /\ [](CodeReported => proc.state = "exited" /\ Len(run.full_log) = Len(proc.out))
    /\ [][run'.full_log # run.full_log /\ run'.flow = run.flow /\ run.pc = "stream"
             => run'.full_log = Append(run.full_log, rstrip(proc.out[Len(run.full_log) + 1]))]_vars

\* the process wrote two lines and goes on running while the log shows the
\* first of them
C17_Witness ==
    /\ run.pc = "stream" /\ proc.state = "running"
    /\ Len(proc.out) = 2
    /\ run.full_log = <<rstrip(OutputLine(1))>>

\* Popen or the read of process.stdout raised in the flow under way or just
\* ended
LaunchOrReadRaised == run.raised \in {"OSError", "UnicodeDecodeError"}

\* C18: when launching the process or reading its output raises, the run is
\* reported as a failure with the text of the exception, no success is
\* reported, and the flow goes through finally to its end, where the next
\* script run can start.
C18_ExceptionReported ==
    /\ []((LaunchOrReadRaised /\ run.pc \in {"finally", "ended"})
             => /\ run.outcome = "Error running"
                /\ run.detail = run.raised
                /\ ~run.success)
    /\ [](LaunchOrReadRaised /\ run.pc = "ended" => ENABLED Rerun)
    /\ [][LaunchOrReadRaised /\ run' # run
             => /\ run.pc = "except" => run'.pc = "finally"
                /\ run.pc = "finally" => run'.pc = "ended"]_vars

\* Start Run ended after Popen raised: no process, the error shown
C18_Witness ==
    /\ run.pc = "ended" /\ run.flow = "Start Run"
    /\ run.raised = "OSError" /\ proc.state = "none"
    /\ run.outcome = "Error running" /\ run.detail = "OSError"

\* a temporary config is among the files
TempExists == \E f \in files : f.path \in {TempPath(n) : n \in {"", "sim", "my sim"}}

OmissionMsgs == {"Please provide a simulation name", "Please select a DEM file"}

\* C19: a click on Start Run with an empty simulation name, or on Start
\* Setup with an empty simulation name or no DEM file selected, shows an
\* error, writes no temporary config and launches no process; so a flow
\* under way always has its name and, for Start Setup, its DEM file.
C19_OmissionStopsRun ==
    /\ [](run.flow = "Start Run" => params.simu_name # "")
    /\ [](run.flow = "Start Setup" => params.simu_name_other # "" /\ params.selected_dem # "")
    /\ [](run.outcome \in OmissionMsgs
             => run.pc = "idle" /\ proc = NoProcess /\ ~TempExists)
    /\ [][run'.outcome \in OmissionMsgs /\ run' # run => files' = files]_vars

\* Start Setup was clicked with a name and no DEM file selected: the error
\* is shown and nothing was started
C19_Witness ==
    /\ run.outcome = "Please select a DEM file"
    /\ params.simu_name_other = "sim" /\ params.selected_dem = ""
    /\ run.pc = "idle" /\ proc = NoProcess /\ files = {}

(***************************************************************************)
(* Properties of Save Config with missing input (checked under SpecConfig) *)
(***************************************************************************)
\* the file names its simulation and, written by Other Locations, its DEM
NothingOmitted(content) ==
    /\ ParserGet(content, "GENERAL", "SIMULATION_NAME", PyStr("")) # PyStr("")
    /\ ~SwissText(content) =>
           ParserGet(content, "INPUT", "USER_DEM_PATH", PyStr(""))
               \notin {PyStr(""), PyStr("None")}

\* C20: Save Config writes no file while the simulation name is missing
\* (either mode) or, in Other Locations, while no DEM file is selected: every
\* file it wrote has a simulation name and, for Other Locations, a DEM path.
C20_OmissionStopsSave == \A f \in files : NothingOmitted(f.content)

(***************************************************************************)
(* Properties of the names, dates and resolutions a run uses               *)
(***************************************************************************)
\* C22: no temporary config is written and no process is started under a
\* simulation name that contains a space, in either mode.
C22_NoSpaceInName ==
    \A name \in {params.simu_name, params.simu_name_other} :
        HasSpace(name) =>
            /\ \A f \in files : f.path # TempPath(name)
            /\ proc.state = "running" => run.temp_config # TempPath(name)

\* C23: every Switzerland config written for a run has END_DATE >= START_DATE.
C23_EndNotBeforeStart ==
    \A f \in files :
        HasOption(f.content, "GENERAL", "START_DATE") =>
            ParserGet(f.content, "GENERAL", "END_DATE", Missing).n
                >= ParserGet(f.content, "GENERAL", "START_DATE", Missing).n

\* C24: in the Switzerland config a session writes after loading a file
\* (with Save Config or for a run), GSD is at least GSD_ref, whatever pair
\* the file held and whichever way the region is given.
C24_GsdAtLeastRef ==
    (FileLoaded /\ run.outcome = "loaded") =>
        float(ParserGet(TempTextNow, "OUTPUT", "GSD", Missing)).n
            >= float(ParserGet(TempTextNow, "OUTPUT", "GSD_ref", Missing)).n

\* a file with GSD = 1.0 and GSD_ref = 2.0 was loaded and the session writes
\* GSD = 2.0
C24_Witness ==
    /\ FileLoaded /\ run.outcome = "loaded"
    /\ float(Get(config, "gsd", PyFloat(100))).n < float(Get(config, "gsd_ref", PyFloat(20))).n
    /\ ParserGet(TempTextNow, "OUTPUT", "GSD", Missing) = str(PyFloat(20))
    /\ ParserGet(TempTextNow, "OUTPUT", "GSD_ref", Missing) = str(PyFloat(20))

(***************************************************************************)
(* The temporary config of a run against the saved config                  *)
(* (checked under SpecConfig)                                              *)
(***************************************************************************)
\* the sections and the key/value pairs of a text, without its comment
\* lines and without the blanks in front of its lines
KeyValues(content) ==
    { [kind |-> content[i].kind, section |-> content[i].section,
       name |-> content[i].name, value |-> content[i].value] :
          i \in {j \in 1..Len(content) : content[j].kind # "comment"} }

SavedText == FileContent(files, saved.path)

\* C25: while the session holds the ParameterSet it saved, the temporary
\* config a run would write has the sections and key/value pairs of the
\* saved file, in Switzerland mode and in Other Locations mode.
C25_TempIsCopy ==
    saved.done =>
        /\ saved.p = SwissParameterSet(config, roi.w, roi.roi_shapefile, params)
               => KeyValues(TempTextNow) = KeyValues(SavedText)
        /\ saved.p = OtherParameterSet(config, params)
               => KeyValues(TempTextOtherNow) = KeyValues(SavedText)

(***************************************************************************)
(* Properties of the runs of two sessions (checked under SpecRuns)         *)
(***************************************************************************)
\* C26: every command started is python -m src.cli --config <temporary
\* config> --log-level <level>, followed by --skip-snowpack in Other
\* Locations always, and in Switzerland mode exactly when the checkbox is
\* set or A3D_IMIS_AVAILABLE is not enabled.
C26_Command ==
    proc.state # "none" =>
        LET level == IF run.flow = "Start Run" THEN meteo.log_level
                     ELSE meteo.log_level_other
            head == <<"python", "-m", "src.cli", "--config", run.temp_config,
                      "--log-level", level>>
            skips == \/ run.flow = "Start Setup"
                     \/ ~meteo.imis
                     \/ meteo.box
        IN  /\ level \in {"INFO", "DEBUG", "WARNING", "ERROR"}
            /\ SubSeq(proc.cmd, 1, 7) = head
            /\ proc.cmd \in {head, head \o <<"--skip-snowpack">>}
            /\ proc.cmd # head <=> skips

\* a Switzerland run was started without --skip-snowpack
C26_Witness ==
    /\ proc.state = "running" /\ run.flow = "Start Run"
    /\ meteo.imis /\ ~meteo.box
    /\ Len(proc.cmd) = 7

(***************************************************************************)
(* The process of a run against its flow (checked under Spec)              *)
(***************************************************************************)
\* the process was started and has not terminated
Alive == proc.state \in {"running", "closed"}

\* C27: a session has at most one process alive, because a run flow ends
\* (and the next save or run is accepted) only after its process has
\* terminated: while the process is alive the flow has not completed.
C27_FlowBlocksWhileAlive == Alive => ~ScriptIdle

(***************************************************************************)
(* The temporary configs of two sessions (checked under SpecRuns)          *)
(***************************************************************************)
\* the file at a path, if there is one
FileAt(fs, path) == {f \in fs : f.path = path}

\* C29: while the process of one flow is alive, no step of the flow of the
\* other session overwrites or deletes the temporary config that process
\* was started with, also when both sessions use the same simulation name.
C29_TempConfigNotShared ==
    [][/\ (Alive /\ peer' # peer)
           => FileAt(files', run.temp_config) = FileAt(files, run.temp_config)
       /\ (peer.pc = "running" /\ peer' = peer)
           => FileAt(files', peer.temp_config) = FileAt(files, peer.temp_config)]_vars

(***************************************************************************)
(* Properties of the points of interest (checked under SpecPoi)            *)
(***************************************************************************)
\* the lines of [POIS] in a text
PoisOf(content) ==
    SelectSeq(content, LAMBDA l : l.kind = "option" /\ l.section = "POIS")

\* the text has two POIs of one name
TwoOfOneName(content) ==
    \E i, j \in 1..Len(PoisOf(content)) : i < j /\ PoisOf(content)[i].name = PoisOf(content)[j].name

\* C28: a POI whose name is already in the list is appended like any other,
\* every saved file lists the POIs in the order they were added, and a file
\* with two POIs of one name parses without error, the last one being the
\* value of the name.
C28_DuplicatePoiNames ==
    /\ (run.poi_form # NoForm /\ run.outcome # "POI appended")
           => run.outcome = AddPoiError(run.poi_form, run.outcome # "POI is outside the defined ROI boundary")
    /\ (saved.done /\ Exists(files, saved.path)) => PoisOf(SavedText) = PoiLines(saved.p.pois)
    /\ \A f \in files :
           TwoOfOneName(f.content) =>
               /\ ~ReadRaises(f.content)
               /\ \A i \in 1..Len(PoisOf(f.content)) :
                      (\A j \in (i + 1)..Len(PoisOf(f.content)) :
                           PoisOf(f.content)[j].name # PoisOf(f.content)[i].name)
                        => ParserGet(f.content, "POIS", PoisOf(f.content)[i].name, Missing)
                               = PoisOf(f.content)[i].value

\* C30: in bounding-box mode "Add POI" appends the POI exactly when it has
\* a name, its coordinates are not both zero, and it lies in the box of the
\* centre and the size tab 2 shows.
C30_PoiInsideRoi ==
    (run.poi_form # NoForm /\ ~roi.w.use_shapefile) =>
        LET f == run.poi_form
            half == roi.w.roi_size \div 2
            inside == /\ roi.w.x - half <= f.x /\ f.x <= roi.w.x + half
                      /\ roi.w.y - half <= f.y /\ f.y <= roi.w.y + half
        IN  /\ run.outcome = "POI appended"
                <=> (f.name # "" /\ ~(f.x = 0 /\ f.y = 0) /\ inside)
            /\ run.outcome = "POI appended"
                => (params.poi_list_ch # <<>>
                    /\ params.poi_list_ch[Len(params.poi_list_ch)] = f)

====
